---------------------------- MODULE Spec2Model ----------------------------
(***************************************************************************)
(* State-machine model of the raytracer crate (src/src/*.rs).              *)
(*                                                                         *)
(* Number representation.  Every f32 of the program is modelled as a       *)
(* fixed-point integer counting thousandths (Scale), so 1.0 is 1000 and    *)
(* 0.1 is 100.  Angles (yaw, pitch, fov), which the program keeps in       *)
(* radians, are modelled in whole degrees; sin/cos/asin/atan2 are computed *)
(* from a sine table with the same fixed-point scale.  The non-finite      *)
(* values are modelled by F32Infinity, and only where a caller hands one   *)
(* in and the serializer writes it; the arithmetic is on finite values.    *)
(***************************************************************************)
EXTENDS Integers, Sequences, FiniteSets, TLC

\* camera, scene: the Raytracer's fields of those names (lib.rs)
\* gl:    the uniform values the latest render handed to the GL context
\* call:  the latest call: its name, the arguments the properties read, and
\*        what it returned
\* hist:  history: the collection sizes when the scene was last replaced
\*        (by clear_scene, or by a document other than its own export) and
\*        the number of Scene::add_* calls on it since
VARIABLES camera, scene, gl, call, hist, frame

vars == <<camera, scene, gl, call, hist, frame>>

(***************************************************************************)
(* Fixed-point arithmetic                                                  *)
(***************************************************************************)
Scale == 1000

Abs(a) == IF a < 0 THEN -a ELSE a

Min(a, b) == IF a < b THEN a ELSE b

\* a / b rounded to the nearest integer (b > 0), symmetric around zero
RDiv(a, b) == IF a >= 0 THEN (2 * a + b) \div (2 * b)
                        ELSE -((2 * (-a) + b) \div (2 * b))

\* a natural number beyond the integer range, as <<h, l>> standing for
\* h * Scale * Scale + l with l < Scale * Scale: the product of two naturals
WMul(x, y) ==
    LET qx == x \div Scale
        rx == x % Scale
        qy == y \div Scale
        ry == y % Scale
        mid == qx * ry + rx * qy
        low == (mid % Scale) * Scale + rx * ry
    IN <<qx * qy + mid \div Scale + low \div (Scale * Scale),
         low % (Scale * Scale)>>

WAdd(p, q) == <<p[1] + q[1] + (p[2] + q[2]) \div (Scale * Scale),
                (p[2] + q[2]) % (Scale * Scale)>>

WLeq(p, q) == p[1] < q[1] \/ (p[1] = q[1] /\ p[2] <= q[2])

\* fixed-point product and quotient of two fixed-point numbers; the product
\* of large factors is RDiv(a * b, Scale) computed in parts
FMul(a, b) ==
    IF Abs(a) <= 32000 /\ Abs(b) <= 32000 THEN RDiv(a * b, Scale)
    ELSE LET w == WMul(Abs(a), Abs(b))
             magnitude == w[1] * Scale + RDiv(w[2], Scale)
         IN IF (a < 0) = (b < 0) THEN magnitude ELSE -magnitude

FDiv(a, b) == IF b > 0 THEN RDiv(a * Scale, b) ELSE -RDiv(a * Scale, -b)

RECURSIVE SqrtSearch(_, _, _)
SqrtSearch(n, lo, hi) ==
    IF lo >= hi THEN lo
    ELSE LET mid == (lo + hi + 1) \div 2
         IN IF mid * mid <= n THEN SqrtSearch(n, mid, hi)
                              ELSE SqrtSearch(n, lo, mid - 1)

\* integer square root (floor), n < 2^31
ISqrt(n) == SqrtSearch(n, 0, 46340)

\* nearest integer to the square root of n
RSqrt(n) == LET s == ISqrt(n)
            IN IF n - s * s > s THEN s + 1 ELSE s

RECURSIVE WSqrtSearch(_, _, _)
WSqrtSearch(n, lo, hi) ==
    IF lo >= hi THEN lo
    ELSE LET mid == (lo + hi + 1) \div 2
         IN IF WLeq(WMul(mid, mid), n) THEN WSqrtSearch(n, mid, hi)
                                       ELSE WSqrtSearch(n, lo, mid - 1)

\* nearest integer to the square root of the number <<h, l>>
WSqrt(n) == LET s == WSqrtSearch(n, 0, Scale * Scale)
            IN IF WLeq(n, WMul(s, s + 1)) THEN s ELSE s + 1

(***************************************************************************)
(* Trigonometry in degrees                                                 *)
(***************************************************************************)
SinTable ==
  << 0, 17, 35, 52, 70, 87, 105, 122, 139, 156, 174, 191, 208,
     225, 242, 259, 276, 292, 309, 326, 342, 358, 375, 391, 407, 423,
     438, 454, 469, 485, 500, 515, 530, 545, 559, 574, 588, 602, 616,
     629, 643, 656, 669, 682, 695, 707, 719, 731, 743, 755, 766, 777,
     788, 799, 809, 819, 829, 839, 848, 857, 866, 875, 883, 891, 899,
     906, 914, 921, 927, 934, 940, 946, 951, 956, 961, 966, 970, 974,
     978, 982, 985, 988, 990, 993, 995, 996, 998, 999, 999, 1000, 1000 >>

\* f32::sin of an angle, the angle in degrees
Sin(d) == LET m == d % 360
          IN IF m <= 90 THEN SinTable[m + 1]
             ELSE IF m <= 180 THEN SinTable[180 - m + 1]
             ELSE IF m <= 270 THEN -SinTable[m - 180 + 1]
             ELSE -SinTable[360 - m + 1]

\* f32::cos of an angle, the angle in degrees
Cos(d) == Sin(d + 90)

\* the largest angle in lo..hi whose sine is at most y (the sine rises over
\* 0..90, and Sin(lo) <= y)
RECURSIVE AsinFloor(_, _, _)
AsinFloor(y, lo, hi) ==
    IF lo = hi THEN lo
    ELSE LET mid == (lo + hi + 1) \div 2
         IN IF Sin(mid) <= y THEN AsinFloor(y, mid, hi)
                             ELSE AsinFloor(y, lo, mid - 1)

\* f32::asin on 0.0..1.0: the angle in 0..90 whose sine is nearest to y
AsinQ1(y) ==
    LET d == AsinFloor(y, 0, 90)
    IN IF d < 90 /\ Sin(d + 1) - y < y - Sin(d) THEN d + 1 ELSE d

\* f32::asin on -1.0..1.0 (odd: asin(-y) = -asin(y))
Asin(y) == IF y >= 0 THEN AsinQ1(y) ELSE -AsinQ1(-y)

\* the largest angle in lo..hi that the direction (x, y), x > 0 and y > 0, is
\* not below
RECURSIVE AtanFloor(_, _, _, _)
AtanFloor(y, x, lo, hi) ==
    IF lo = hi THEN lo
    ELSE LET mid == (lo + hi + 1) \div 2
         IN IF x * Sin(mid) <= y * Cos(mid) THEN AtanFloor(y, x, mid, hi)
                                            ELSE AtanFloor(y, x, lo, mid - 1)

\* atan2 in the first quadrant: the angle in 0..90 nearest to the direction
AtanQ1(y, x) ==
    LET d == AtanFloor(y, x, 0, 90)
    IN IF d < 90 /\ x * Sin(d + 1) - y * Cos(d + 1) < y * Cos(d) - x * Sin(d)
       THEN d + 1 ELSE d

\* f32::atan2(y, x): the angle in -180..180 of the direction (x, y); atan2(0, 0) is 0
Atan2(y, x) == IF x = 0 /\ y = 0 THEN 0
               ELSE IF y = 0 THEN (IF x > 0 THEN 0 ELSE 180)
               ELSE IF x = 0 THEN (IF y > 0 THEN 90 ELSE -90)
               ELSE LET q == AtanQ1(Abs(y), Abs(x))
                        h == IF x > 0 THEN q ELSE 180 - q
                    IN IF y > 0 THEN h ELSE -h

\* f32::INFINITY: a magnitude none of the finite values explored reaches
F32Infinity == Scale * Scale * Scale

\* f32::is_finite
IsFinite(n) == Abs(n) < F32Infinity

(***************************************************************************)
(* Vec3 (math.rs)                                                          *)
(***************************************************************************)
Vec3(x, y, z) == [x |-> x, y |-> y, z |-> z]

\* a vector given in whole units
V(x, y, z) == Vec3(x * Scale, y * Scale, z * Scale)

VAdd(a, b) == Vec3(a.x + b.x, a.y + b.y, a.z + b.z)

VSub(a, b) == Vec3(a.x - b.x, a.y - b.y, a.z - b.z)

VMulS(a, s) == Vec3(FMul(a.x, s), FMul(a.y, s), FMul(a.z, s))

\* whether every component of a is within m
Within(a, m) == Abs(a.x) <= m /\ Abs(a.y) <= m /\ Abs(a.z) <= m

\* the dot product; that of long vectors is the same quotient computed in
\* parts, the thousands of a apart from its remainders
Dot(a, b) ==
    IF Within(a, 18000) /\ Within(b, 18000)
    THEN RDiv(a.x * b.x + a.y * b.y + a.z * b.z, Scale)
    ELSE LET h == (a.x \div Scale) * b.x + (a.y \div Scale) * b.y
                  + (a.z \div Scale) * b.z
             l == (a.x % Scale) * b.x + (a.y % Scale) * b.y
                  + (a.z % Scale) * b.z
         IN IF h >= -(l \div Scale) THEN h + (2 * l + Scale) \div (2 * Scale)
            ELSE h - (Scale - 2 * l) \div (2 * Scale)

Length(a) ==
    IF Within(a, 26000) THEN RSqrt(a.x * a.x + a.y * a.y + a.z * a.z)
    ELSE WSqrt(WAdd(WAdd(WMul(Abs(a.x), Abs(a.x)), WMul(Abs(a.y), Abs(a.y))),
                    WMul(Abs(a.z), Abs(a.z))))

Normalize(a) == LET len == Length(a)
                IN IF len > 0
                   THEN Vec3(FDiv(a.x, len), FDiv(a.y, len), FDiv(a.z, len))
                   ELSE a

(***************************************************************************)
(* Camera (camera.rs)                                                      *)
(***************************************************************************)
PitchLimit == 89

DefaultFov == 45

Clamp(v, lo, hi) == IF v < lo THEN lo ELSE IF v > hi THEN hi ELSE v

\* Camera::update_vectors
UpdateVectors(c) ==
    LET cos_yaw   == Cos(c.yaw)
        sin_yaw   == Sin(c.yaw)
        cos_pitch == Cos(c.pitch)
        sin_pitch == Sin(c.pitch)
        forward   == Normalize(Vec3(FMul(sin_yaw, cos_pitch), sin_pitch,
                                    FMul(-cos_yaw, cos_pitch)))
    IN [c EXCEPT !.forward = forward,
                 !.up      = V(0, 1, 0),
                 !.right   = Normalize(Vec3(cos_yaw, 0, sin_yaw)),
                 !.target  = VAdd(c.position, forward)]

\* Camera::new
CameraNew(position, target, aspect_ratio) ==
    UpdateVectors([position     |-> position,
                   target       |-> target,
                   up           |-> V(0, 1, 0),
                   right        |-> V(1, 0, 0),
                   forward      |-> V(0, 0, -1),
                   yaw          |-> 0,
                   pitch        |-> 0,
                   fov          |-> DefaultFov,
                   aspect_ratio |-> aspect_ratio,
                   near         |-> Scale \div 10,
                   far          |-> 100 * Scale])

\* Camera::move_relative
CameraMoveRelative(c, forward, right, up) ==
    LET cos_yaw     == Cos(c.yaw)
        sin_yaw     == Sin(c.yaw)
        forward_vec == Vec3(sin_yaw, 0, cos_yaw)
        right_vec   == Vec3(cos_yaw, 0, -sin_yaw)
        up_vec      == V(0, 1, 0)
        p1 == VAdd(c.position, VMulS(forward_vec, forward))
        p2 == VAdd(p1, VMulS(right_vec, right))
        p3 == VAdd(p2, VMulS(up_vec, up))
    IN [c EXCEPT !.position = p3]

\* Camera::move_absolute
CameraMoveAbsolute(c, p) == [c EXCEPT !.position = p]

\* the mutant of CameraRotate: pitch accumulated without the clamp
CameraRotateNoClamp(c, yaw_delta, pitch_delta) ==
    UpdateVectors([c EXCEPT !.yaw = c.yaw + yaw_delta,
                            !.pitch = c.pitch + pitch_delta])

\* Camera::rotate
CameraRotate(c, yaw_delta, pitch_delta) ==
    UpdateVectors([c EXCEPT !.yaw   = c.yaw + yaw_delta,
                            !.pitch = Clamp(c.pitch + pitch_delta,
                                            -PitchLimit, PitchLimit)])

\* Camera::look_at
CameraLookAt(c, target) ==
    LET direction == Normalize(VSub(target, c.position))
    IN UpdateVectors([c EXCEPT !.target = target,
                               !.yaw    = Atan2(direction.z, direction.x),
                               !.pitch  = Asin(direction.y)])

\* Camera::set_position
CameraSetPosition(c, position) == UpdateVectors([c EXCEPT !.position = position])

\* Camera::set_target
CameraSetTarget(c, target) ==
    LET direction == Normalize(VSub(target, c.position))
    IN UpdateVectors([c EXCEPT !.target = target,
                               !.yaw    = Atan2(direction.z, direction.x),
                               !.pitch  = Asin(direction.y)])

\* Camera::get_target
CameraGetTarget(c) == c.target

(***************************************************************************)
(* Material (material.rs)                                                  *)
(***************************************************************************)
MaterialTypes == {"Lambertian", "Metal", "Dielectric"}

\* Material::new
MaterialNew(material_type, albedo, roughness, ior) ==
    [material_type |-> material_type, albedo |-> albedo,
     roughness |-> roughness, ior |-> ior]

\* the mutant of MaterialTypeOfCode: a code above 2 counts as 2
MaterialTypeOfCodeSaturating(code) ==
    CASE code = 1 -> "Metal"
      [] code >= 2 -> "Dielectric"
      [] OTHER    -> "Lambertian"

\* the match on the integer material code in Raytracer::add_sphere and
\* Raytracer::set_sphere_material
MaterialTypeOfCode(code) ==
    CASE code = 1 -> "Metal"
      [] code = 2 -> "Dielectric"
      [] OTHER    -> "Lambertian"

\* the match on MaterialType in Scene::set_uniforms
MaterialCode(material_type) ==
    CASE material_type = "Lambertian" -> 0
      [] material_type = "Metal"      -> 1
      [] material_type = "Dielectric" -> 2

(***************************************************************************)
(* Primitives, lights and the scene (scene.rs)                             *)
(***************************************************************************)
SphereNew(center, radius, material) ==
    [center |-> center, radius |-> radius, material |-> material]

\* Plane::new normalizes the normal
PlaneNew(point, normal, material) ==
    [point |-> point, normal |-> Normalize(normal), material |-> material]

BoxNew(center, size, material) ==
    [center |-> center, size |-> size, material |-> material]

CylinderNew(base, axis, radius, material) ==
    [base |-> base, axis |-> axis, radius |-> radius, material |-> material]

TriangleNew(v0, v1, v2, material) ==
    [v0 |-> v0, v1 |-> v1, v2 |-> v2, material |-> material]

LightNew(position, color, intensity) ==
    [position |-> position, color |-> color, intensity |-> intensity]

\* a colour given in tenths
Rgb(r, g, b) == Vec3(r * (Scale \div 10), g * (Scale \div 10), b * (Scale \div 10))

\* Scene::new
SceneNew ==
    [spheres |-> <<>>, planes |-> <<>>, boxes |-> <<>>, cylinders |-> <<>>,
     triangles |-> <<>>, lights |-> <<>>, background_color |-> Rgb(5, 7, 10)]

\* the mutant of SceneAddSphere: a sphere past the render cap is dropped
SceneAddSphereCapped(s, sphere) ==
    IF Len(s.spheres) >= 10 THEN s ELSE [s EXCEPT !.spheres = Append(@, sphere)]

\* Scene::add_sphere .. Scene::add_light
SceneAddSphere(s, sphere) == [s EXCEPT !.spheres = Append(@, sphere)]

SceneAddPlane(s, plane) == [s EXCEPT !.planes = Append(@, plane)]

SceneAddBox(s, box_obj) == [s EXCEPT !.boxes = Append(@, box_obj)]

SceneAddCylinder(s, cylinder) == [s EXCEPT !.cylinders = Append(@, cylinder)]

SceneAddTriangle(s, triangle) == [s EXCEPT !.triangles = Append(@, triangle)]

SceneAddLight(s, light) == [s EXCEPT !.lights = Append(@, light)]

\* Scene::set_background
SceneSetBackground(s, color) == [s EXCEPT !.background_color = color]

\* the ground plane of Raytracer::new and Raytracer::clear_scene
GroundPlane ==
    PlaneNew(V(0, -1, 0), V(0, 1, 0),
             MaterialNew("Lambertian", Rgb(5, 5, 5), 0, 0))

\* the scene Raytracer::new builds
DefaultScene ==
    LET s1 == SceneAddSphere(SceneNew,
                SphereNew(V(0, 0, 0), Scale,
                          MaterialNew("Lambertian", Rgb(7, 3, 3), 0, 0)))
        s2 == SceneAddSphere(s1,
                SphereNew(V(-2, 0, -1), Scale \div 2,
                          MaterialNew("Metal", Rgb(8, 8, 9), Scale \div 10, 0)))
        s3 == SceneAddSphere(s2,
                SphereNew(V(2, 0, -1), Scale \div 2,
                          MaterialNew("Dielectric", Rgb(9, 10, 9), 0, 15 * (Scale \div 10))))
        s4 == SceneAddSphere(s3,
                SphereNew(Vec3(0, Scale, -2 * Scale), 3 * (Scale \div 10),
                          MaterialNew("Dielectric", Rgb(10, 9, 9), 0, 13 * (Scale \div 10))))
        s5 == SceneAddPlane(s4, GroundPlane)
        s6 == SceneAddLight(s5, LightNew(V(10, 10, 10), Rgb(10, 10, 9), 200 * Scale))
        s7 == SceneAddLight(s6, LightNew(V(-5, 8, 5), Rgb(7, 8, 10), 80 * Scale))
    IN SceneAddLight(s7, LightNew(V(0, 15, 0), Rgb(9, 9, 8), 150 * Scale))

(***************************************************************************)
(* Scene::set_uniforms (scene.rs): the values handed to the GL context     *)
(***************************************************************************)
SphereCap == 10

PlaneCap == 5

BoxCap == 5

CylinderCap == 5

TriangleCap == 10

LightCap == 4

\* the mutant of Take: the whole collection is uploaded
TakeAll(seq, n) == seq

\* Iterator::take
Take(seq, n) == SubSeq(seq, 1, Min(Len(seq), n))

UploadSphere(sphere) ==
    [center        |-> sphere.center,
     radius        |-> sphere.radius,
     albedo        |-> sphere.material.albedo,
     material_type |-> MaterialCode(sphere.material.material_type),
     roughness     |-> sphere.material.roughness,
     ior           |-> sphere.material.ior]

UploadPlane(plane) ==
    [point         |-> plane.point,
     normal        |-> plane.normal,
     albedo        |-> plane.material.albedo,
     material_type |-> MaterialCode(plane.material.material_type)]

UploadBox(box_obj) ==
    [center        |-> box_obj.center,
     size          |-> box_obj.size,
     albedo        |-> box_obj.material.albedo,
     material_type |-> MaterialCode(box_obj.material.material_type),
     roughness     |-> box_obj.material.roughness,
     ior           |-> box_obj.material.ior]

UploadCylinder(cylinder) ==
    [base          |-> cylinder.base,
     axis          |-> cylinder.axis,
     radius        |-> cylinder.radius,
     albedo        |-> cylinder.material.albedo,
     material_type |-> MaterialCode(cylinder.material.material_type),
     roughness     |-> cylinder.material.roughness,
     ior           |-> cylinder.material.ior]

UploadTriangle(triangle) ==
    [v0            |-> triangle.v0,
     v1            |-> triangle.v1,
     v2            |-> triangle.v2,
     albedo        |-> triangle.material.albedo,
     material_type |-> MaterialCode(triangle.material.material_type),
     roughness     |-> triangle.material.roughness,
     ior           |-> triangle.material.ior]

UploadLight(light) ==
    [position |-> light.position, color |-> light.color,
     intensity |-> light.intensity]

\* the uniform3f/uniform1f/uniform1i calls of one loop over a collection:
\* slot i of the array receives the upload of the i-th entry taken
UploadAll(seq, cap, Upload(_)) ==
    LET taken == Take(seq, cap)
    IN [i \in 1..Len(taken) |-> Upload(taken[i])]

\* Scene::set_uniforms: the counts and the array slots it writes
SetUniforms(s) ==
    [u_sphere_count     |-> Min(Len(s.spheres), SphereCap),
     u_spheres          |-> UploadAll(s.spheres, SphereCap, UploadSphere),
     u_plane_count      |-> Min(Len(s.planes), PlaneCap),
     u_planes           |-> UploadAll(s.planes, PlaneCap, UploadPlane),
     u_box_count        |-> Min(Len(s.boxes), BoxCap),
     u_boxes            |-> UploadAll(s.boxes, BoxCap, UploadBox),
     u_cylinder_count   |-> Min(Len(s.cylinders), CylinderCap),
     u_cylinders        |-> UploadAll(s.cylinders, CylinderCap, UploadCylinder),
     u_triangle_count   |-> Min(Len(s.triangles), TriangleCap),
     u_triangles        |-> UploadAll(s.triangles, TriangleCap, UploadTriangle),
     u_light_count      |-> Min(Len(s.lights), LightCap),
     u_lights           |-> UploadAll(s.lights, LightCap, UploadLight),
     u_background_color |-> s.background_color]

(***************************************************************************)
(* Scene::to_json and Scene::from_json (scene.rs, serde_json)              *)
(*                                                                         *)
(* A JSON document is modelled by its syntax tree.  A number is the        *)
(* decimal text the serializer writes: a sign, the integer digits and the  *)
(* three fraction digits.  "invalid" is a text that is not JSON at all.    *)
(***************************************************************************)
\* serde_json's serialize_f32: a finite number is written as decimal text,
\* NaN and the infinities are written as null
JNum(n) == IF IsFinite(n)
           THEN [t |-> "num", neg |-> n < 0, int |-> Abs(n) \div Scale,
                 frac |-> Abs(n) % Scale]
           ELSE [t |-> "null"]

JStr(str) == [t |-> "str", s |-> str]

JArr(seq, F(_)) == [t |-> "arr", items |-> [i \in 1..Len(seq) |-> F(seq[i])]]

JObj(fields) == [t |-> "obj", fields |-> fields]

JInvalid == [t |-> "invalid"]

Vec3ToJson(v) == JObj([x |-> JNum(v.x), y |-> JNum(v.y), z |-> JNum(v.z)])

MaterialToJson(m) ==
    JObj([material_type |-> JStr(m.material_type),
          albedo        |-> Vec3ToJson(m.albedo),
          roughness     |-> JNum(m.roughness),
          ior           |-> JNum(m.ior)])

SphereToJson(e) ==
    JObj([center |-> Vec3ToJson(e.center), radius |-> JNum(e.radius),
          material |-> MaterialToJson(e.material)])

PlaneToJson(e) ==
    JObj([point |-> Vec3ToJson(e.point), normal |-> Vec3ToJson(e.normal),
          material |-> MaterialToJson(e.material)])

BoxToJson(e) ==
    JObj([center |-> Vec3ToJson(e.center), size |-> Vec3ToJson(e.size),
          material |-> MaterialToJson(e.material)])

CylinderToJson(e) ==
    JObj([base |-> Vec3ToJson(e.base), axis |-> Vec3ToJson(e.axis),
          radius |-> JNum(e.radius), material |-> MaterialToJson(e.material)])

TriangleToJson(e) ==
    JObj([v0 |-> Vec3ToJson(e.v0), v1 |-> Vec3ToJson(e.v1),
          v2 |-> Vec3ToJson(e.v2), material |-> MaterialToJson(e.material)])

LightToJson(e) ==
    JObj([position |-> Vec3ToJson(e.position), color |-> Vec3ToJson(e.color),
          intensity |-> JNum(e.intensity)])

\* Scene::to_json
ToJson(s) ==
    JObj([spheres          |-> JArr(s.spheres, SphereToJson),
          planes           |-> JArr(s.planes, PlaneToJson),
          boxes            |-> JArr(s.boxes, BoxToJson),
          cylinders        |-> JArr(s.cylinders, CylinderToJson),
          triangles        |-> JArr(s.triangles, TriangleToJson),
          lights           |-> JArr(s.lights, LightToJson),
          background_color |-> Vec3ToJson(s.background_color)])

Ok(v) == [ok |-> TRUE, v |-> v]

Err == [ok |-> FALSE]

\* a JSON object that has every field of `names` (fields it does not know
\* are ignored by the derived deserializer)
HasFields(j, names) == j.t = "obj" /\ names \subseteq DOMAIN j.fields

ParseF32(j) ==
    IF j.t = "num"
    THEN Ok((IF j.neg THEN -1 ELSE 1) * (j.int * Scale + j.frac))
    ELSE Err

ParseVec3(j) ==
    IF HasFields(j, {"x", "y", "z"})
    THEN LET x == ParseF32(j.fields.x)
             y == ParseF32(j.fields.y)
             z == ParseF32(j.fields.z)
         IN IF x.ok /\ y.ok /\ z.ok THEN Ok(Vec3(x.v, y.v, z.v)) ELSE Err
    ELSE Err

ParseMaterialType(j) ==
    IF j.t = "str" /\ j.s \in MaterialTypes THEN Ok(j.s) ELSE Err

ParseMaterial(j) ==
    IF HasFields(j, {"material_type", "albedo", "roughness", "ior"})
    THEN LET mt == ParseMaterialType(j.fields.material_type)
             al == ParseVec3(j.fields.albedo)
             ro == ParseF32(j.fields.roughness)
             io == ParseF32(j.fields.ior)
         IN IF mt.ok /\ al.ok /\ ro.ok /\ io.ok
            THEN Ok(MaterialNew(mt.v, al.v, ro.v, io.v)) ELSE Err
    ELSE Err

ParseSphere(j) ==
    IF HasFields(j, {"center", "radius", "material"})
    THEN LET c == ParseVec3(j.fields.center)
             r == ParseF32(j.fields.radius)
             m == ParseMaterial(j.fields.material)
         IN IF c.ok /\ r.ok /\ m.ok THEN Ok(SphereNew(c.v, r.v, m.v)) ELSE Err
    ELSE Err

\* deserializing does not go through Plane::new: the normal is taken as written
ParsePlane(j) ==
    IF HasFields(j, {"point", "normal", "material"})
    THEN LET p == ParseVec3(j.fields.point)
             n == ParseVec3(j.fields.normal)
             m == ParseMaterial(j.fields.material)
         IN IF p.ok /\ n.ok /\ m.ok
            THEN Ok([point |-> p.v, normal |-> n.v, material |-> m.v]) ELSE Err
    ELSE Err

ParseBox(j) ==
    IF HasFields(j, {"center", "size", "material"})
    THEN LET c == ParseVec3(j.fields.center)
             z == ParseVec3(j.fields.size)
             m == ParseMaterial(j.fields.material)
         IN IF c.ok /\ z.ok /\ m.ok THEN Ok(BoxNew(c.v, z.v, m.v)) ELSE Err
    ELSE Err

ParseCylinder(j) ==
    IF HasFields(j, {"base", "axis", "radius", "material"})
    THEN LET b == ParseVec3(j.fields.base)
             a == ParseVec3(j.fields.axis)
             r == ParseF32(j.fields.radius)
             m == ParseMaterial(j.fields.material)
         IN IF b.ok /\ a.ok /\ r.ok /\ m.ok
            THEN Ok(CylinderNew(b.v, a.v, r.v, m.v)) ELSE Err
    ELSE Err

ParseTriangle(j) ==
    IF HasFields(j, {"v0", "v1", "v2", "material"})
    THEN LET a == ParseVec3(j.fields.v0)
             b == ParseVec3(j.fields.v1)
             c == ParseVec3(j.fields.v2)
             m == ParseMaterial(j.fields.material)
         IN IF a.ok /\ b.ok /\ c.ok /\ m.ok
            THEN Ok(TriangleNew(a.v, b.v, c.v, m.v)) ELSE Err
    ELSE Err

ParseLight(j) ==
    IF HasFields(j, {"position", "color", "intensity"})
    THEN LET p == ParseVec3(j.fields.position)
             c == ParseVec3(j.fields.color)
             i == ParseF32(j.fields.intensity)
         IN IF p.ok /\ c.ok /\ i.ok THEN Ok(LightNew(p.v, c.v, i.v)) ELSE Err
    ELSE Err

\* Vec<T>: a JSON array every element of which parses
ParseVec(j, Parse(_)) ==
    IF j.t = "arr" /\ \A i \in DOMAIN j.items : Parse(j.items[i]).ok
    THEN Ok([i \in 1..Len(j.items) |-> Parse(j.items[i]).v])
    ELSE Err

\* Scene::from_json
FromJson(j) ==
    IF HasFields(j, {"spheres", "planes", "boxes", "cylinders", "triangles",
                     "lights", "background_color"})
    THEN LET sp == ParseVec(j.fields.spheres, ParseSphere)
             pl == ParseVec(j.fields.planes, ParsePlane)
             bo == ParseVec(j.fields.boxes, ParseBox)
             cy == ParseVec(j.fields.cylinders, ParseCylinder)
             tr == ParseVec(j.fields.triangles, ParseTriangle)
             li == ParseVec(j.fields.lights, ParseLight)
             bg == ParseVec3(j.fields.background_color)
         IN IF sp.ok /\ pl.ok /\ bo.ok /\ cy.ok /\ tr.ok /\ li.ok /\ bg.ok
            THEN Ok([spheres |-> sp.v, planes |-> pl.v, boxes |-> bo.v,
                     cylinders |-> cy.v, triangles |-> tr.v, lights |-> li.v,
                     background_color |-> bg.v])
            ELSE Err
    ELSE Err

(***************************************************************************)
(* Bounds of the model and the inputs the actions draw from                *)
(***************************************************************************)
\* entries beyond the cap in the largest document loaded
MaxOver == 2

\* Scene::add_* calls explored on one scene
MaxAdds == 1

\* an index no explored scene reaches
FarIndex == 20

\* renders are explored up to this time (milliseconds)
MaxTime == 1000

\* |yaw| explored, in degrees
MaxYaw == 180

\* |coordinate| of the camera position explored, in whole units
MaxCoord == 8

CollectionNames ==
    {"spheres", "planes", "boxes", "cylinders", "triangles", "lights"}

Cap(name) ==
    CASE name = "spheres"   -> SphereCap
      [] name = "planes"    -> PlaneCap
      [] name = "boxes"     -> BoxCap
      [] name = "cylinders" -> CylinderCap
      [] name = "triangles" -> TriangleCap
      [] name = "lights"    -> LightCap

Counts(s) == [n \in CollectionNames |-> Len(s[n])]

NoAdds == [n \in CollectionNames |-> 0]

HistOf(s) == [base |-> Counts(s), adds |-> NoAdds, deltas |-> <<>>]

\* the history when the scene is replaced by s: the frame deltas go on
Rebased(h, s) == [h EXCEPT !.base = Counts(s), !.adds = NoAdds]

Added(h, name) == [h EXCEPT !.adds[name] = @ + 1]

AddsTotal(h) ==
    h.adds["spheres"] + h.adds["planes"] + h.adds["boxes"]
      + h.adds["cylinders"] + h.adds["triangles"] + h.adds["lights"]

\* the i-th entry of each collection of the prepared documents
DocMaterial(i) ==
    MaterialNew(MaterialTypeOfCode(i % 3), Rgb(i % 10, 5, 5), (i % 4) * 250,
                Scale + (i % 3) * 250)

DocSphere(i) == SphereNew(V(i, 0, -i), Scale + i, DocMaterial(i))

DocPlane(i) == PlaneNew(V(0, -i, 0), V(0, 1, 0), DocMaterial(i))

DocBox(i) == BoxNew(V(i, 1, 0), V(1, 2, 3), DocMaterial(i))

DocCylinder(i) == CylinderNew(V(0, 0, i), V(0, 2, 0), Scale \div 2, DocMaterial(i))

DocTriangle(i) == TriangleNew(V(i, 0, 0), V(i, 1, 0), V(i, 0, 1), DocMaterial(i))

DocLight(i) == LightNew(V(i, 10, -i), Rgb(10, 10, 9), 100 * Scale + i)

\* a scene holding `over` entries more than the cap of every collection
CapScene(over) ==
    [spheres   |-> [i \in 1..(SphereCap + over) |-> DocSphere(i)],
     planes    |-> [i \in 1..(PlaneCap + over) |-> DocPlane(i)],
     boxes     |-> [i \in 1..(BoxCap + over) |-> DocBox(i)],
     cylinders |-> [i \in 1..(CylinderCap + over) |-> DocCylinder(i)],
     triangles |-> [i \in 1..(TriangleCap + over) |-> DocTriangle(i)],
     lights    |-> [i \in 1..(LightCap + over) |-> DocLight(i)],
     background_color |-> Rgb(1, 2, 3)]

\* a field of a JSON object replaced, and a field removed
WithField(j, name, value) == JObj([j.fields EXCEPT ![name] = value])

WithoutField(j, name) ==
    JObj([n \in DOMAIN j.fields \ {name} |-> j.fields[n]])

SmallScene ==
    SceneSetBackground(
        SceneAddSphere(SceneNew,
            SphereNew(Vec3(-1500, 250, 0), 750,
                      MaterialNew("Metal", Rgb(2, 4, 6), 500, Scale))),
        Vec3(0, 0, 0))

CapDocNames == {"at_cap", "over_cap"}

BadDocNames ==
    {"not_json", "empty_object", "missing_lights", "bad_radius",
     "bad_material", "null_background"}

EditDocNames == BadDocNames \cup {"small", "exported"}

FixedDocNames == CapDocNames \cup BadDocNames \cup {"small"}

\* the documents handed to load_scene_json, other than an exported one
FixedDoc(name) ==
    CASE name = "at_cap"   -> ToJson(CapScene(0))
      [] name = "over_cap" -> ToJson(CapScene(MaxOver))
      [] name = "small"    -> ToJson(SmallScene)
      [] name = "not_json" -> JInvalid
      [] name = "empty_object" -> JObj([unknown |-> JStr("x")])
      [] name = "missing_lights" -> WithoutField(ToJson(DefaultScene), "lights")
      [] name = "bad_radius" ->
           WithField(ToJson(SmallScene), "spheres",
               JArr(SmallScene.spheres,
                    LAMBDA e : WithField(SphereToJson(e), "radius", JStr("big"))))
      [] name = "bad_material" ->
           WithField(ToJson(SmallScene), "spheres",
               JArr(SmallScene.spheres,
                    LAMBDA e : WithField(SphereToJson(e), "material",
                        WithField(MaterialToJson(e.material), "material_type",
                                  JNum(Scale)))))
      [] name = "null_background" ->
           WithField(ToJson(SmallScene), "background_color", [t |-> "null"])

\* Scene::from_json of each of them
ParsedDocs == [name \in FixedDocNames |-> FromJson(FixedDoc(name))]

\* "exported" is the text the preceding export_scene_json call returned
DocAvailable(name) == name = "exported" => call.op = "export_scene_json"

\* arguments of Raytracer::add_sphere: x, y, z, radius, r, g, b, material_type
SphereArgs == { <<-500, 250, 0, 1250, 900, 800, 700, 2>> }

\* indices read and removed at
Indices == {0, 1, FarIndex}

\* indices written at
WriteIndices == {0, FarIndex}

Positions == { Vec3(-500, 0, 250) }

Radii == { 2 * Scale, F32Infinity }

MaterialArgs == { <<200, 400, 600, 1>>, <<200, 400, 600, 3>> }

\* arguments of add_sphere and set_sphere_material with every material code
\* and codes that name no material
CodedSphereArgs ==
    { <<-500, 250, 0, 1250, 900, 800, 700, code>> : code \in {0, 1, 2, 3, 7} }

CodedMaterialArgs == { <<200, 400, 600, code>> : code \in {0, 1, 2, 3, 255} }

\* arguments of Scene::add_*
ExtraSpheres ==
    { SphereNew(V(0, 9, 0), 3 * Scale, MaterialNew("Metal", Rgb(1, 1, 1), 0, Scale)),
      SphereNew(V(0, -9, 0), Scale, MaterialNew("Lambertian", Rgb(9, 9, 9), 0, Scale)) }

ExtraPlanes == { PlaneNew(V(0, 0, -9), V(0, 0, 2), MaterialNew("Metal", Rgb(3, 3, 3), 0, 0)) }

ExtraBoxes == { BoxNew(V(9, 9, 9), V(1, 1, 1), MaterialNew("Dielectric", Rgb(9, 9, 9), 0, 1500)) }

ExtraCylinders ==
    { CylinderNew(V(9, 0, 9), V(0, 3, 0), Scale, MaterialNew("Lambertian", Rgb(2, 2, 2), 0, Scale)) }

ExtraTriangles ==
    { TriangleNew(V(9, 0, 0), V(0, 9, 0), V(0, 0, 9), MaterialNew("Metal", Rgb(4, 4, 4), 250, Scale)) }

ExtraLights == { LightNew(V(0, 20, 0), Rgb(10, 0, 0), 50 * Scale),
                 LightNew(V(0, -20, 0), Rgb(0, 0, 10), 0) }

\* arguments of rotate: yaw_delta, pitch_delta (degrees)
RotateArgs == { <<90, 0>>, <<0, 1000>>, <<0, -1000>> }

\* arguments of move_relative: forward, right, up
MoveArgs == { <<2 * Scale, 0, 0>>, <<0, 2 * Scale, 0>>, <<0, 0, -2 * Scale>> }

Targets == { V(0, 0, 0), V(3, 2, 1), V(0, 7, 5) }

\* the position Raytracer::new constructs the camera at; relative moves are
\* explored from it
\* arguments of set_camera_position and move_absolute
CameraPositions == {V(1, 2, 3), V(-4, 0, 2)}

CameraStart == V(0, 2, 5)

InBox(p) == /\ Abs(p.x) <= MaxCoord * Scale
            /\ Abs(p.y) <= MaxCoord * Scale
            /\ Abs(p.z) <= MaxCoord * Scale

\* clocks: for each time of the last render, the delays after which the
\* next render may read Date::now()
\* one render in the explored time
SlowClock == [t \in 0..MaxTime |-> {MaxTime}]

\* two renders in the explored time
SteadyClock == [t \in 0..MaxTime |-> {MaxTime \div 2}]

\* frames 10 to 16 ms apart, the first one 16 or 33 ms after construction
FastClock == [t \in 0..MaxTime |-> IF t = 0 THEN {16, 33} ELSE {10 + (t % 7)}]

(***************************************************************************)
(* Raytracer (lib.rs)                                                      *)
(***************************************************************************)
GlInit ==
    [u_camera_pos     |-> V(0, 0, 0),
     u_camera_forward |-> V(0, 0, 0),
     u_camera_right   |-> V(0, 0, 0),
     u_camera_up      |-> V(0, 0, 0),
     scene            |-> [SetUniforms(SceneNew) EXCEPT
                              !.u_background_color = V(0, 0, 0)]]

\* the frame window of Raytracer::render: `if self.frame_times.len() > 60`
FrameWindow == 60

\* the mutant of PushFrameTime: a full window drops its newest entry
PushFrameTimeDropNewest(frame_times, delta_time) ==
    IF Len(frame_times) + 1 > FrameWindow THEN frame_times
                                          ELSE Append(frame_times, delta_time)

\* frame_times.push(delta_time); if len > 60 { frame_times.remove(0) }
PushFrameTime(frame_times, delta_time) ==
    LET pushed == Append(frame_times, delta_time)
    IN IF Len(pushed) > FrameWindow THEN Tail(pushed) ELSE pushed

RECURSIVE SumSeq(_)
SumSeq(q) == IF q = <<>> THEN 0 ELSE Head(q) + SumSeq(Tail(q))

\* fps = 1000.0 / (sum / len), in thousandths; a zero average gives infinity
FpsOf(frame_times) ==
    LET avg_time == FDiv(SumSeq(frame_times) * Scale, Len(frame_times) * Scale)
    IN IF avg_time = 0 THEN F32Infinity ELSE FDiv(1000 * Scale, avg_time)

\* the timing part of Raytracer::render, current_time being Date::now()
FrameTimed(f, current_time) ==
    LET delta_time == current_time - f.last_frame_time
        frame_times == PushFrameTime(f.frame_times, delta_time)
    IN [last_frame_time |-> current_time,
        frame_times     |-> frame_times,
        fps             |-> IF frame_times # <<>> THEN FpsOf(frame_times)
                                                  ELSE f.fps]

\* Raytracer::new, for an 800 x 600 canvas; Date::now() at construction
\* is the origin of the time axis (milliseconds)
Init ==
    /\ camera = CameraNew(CameraStart, V(0, 0, 0), (800 * Scale) \div 600)
    /\ scene = DefaultScene
    /\ gl = GlInit
    /\ call = [op |-> "new"]
    /\ hist = HistOf(DefaultScene)
    /\ frame = [last_frame_time |-> 0, frame_times |-> <<>>, fps |-> 0]

\* the mutant of RenderUniforms: the forward vector of the camera as built
RenderUniformsStaleForward(c, s) ==
    [u_camera_pos     |-> c.position,
     u_camera_forward |-> UpdateVectors([c EXCEPT !.yaw = 0, !.pitch = 0]).forward,
     u_camera_right   |-> c.right,
     u_camera_up      |-> c.up,
     scene            |-> SetUniforms(s)]

\* the values Raytracer::render hands to the uniform calls; get_forward,
\* get_right and get_up read the camera's fields
RenderUniforms(c, s) ==
    [u_camera_pos     |-> c.position,
     u_camera_forward |-> c.forward,
     u_camera_right   |-> c.right,
     u_camera_up      |-> c.up,
     scene            |-> SetUniforms(s)]

\* Raytracer::render: the frame timing, the camera uniforms, then
\* Scene::set_uniforms, then the draw; clock[t] holds the delays after which
\* Date::now() may be read by the render that follows the one at time t
Render(clock) ==
    \E delta \in clock[frame.last_frame_time] :
      /\ frame.last_frame_time + delta <= MaxTime
      /\ frame' = FrameTimed(frame, frame.last_frame_time + delta)
      /\ hist' = [hist EXCEPT !.deltas = Append(@, delta)]
      /\ gl' = RenderUniforms(camera, scene)
      /\ call' = [op |-> "render"]
      /\ UNCHANGED <<camera, scene>>

\* Raytracer::add_sphere
AddSphere(args) ==
    /\ AddsTotal(hist) < MaxAdds
    /\ \E a \in args :
         LET material_type == MaterialTypeOfCode(a[8])
             sphere == SphereNew(Vec3(a[1], a[2], a[3]), a[4],
                           MaterialNew(material_type, Vec3(a[5], a[6], a[7]),
                                       Scale \div 10, 15 * (Scale \div 10)))
         IN /\ scene' = SceneAddSphere(scene, sphere)
            /\ call' = [op |-> "add_sphere", material_type |-> a[8]]
    /\ hist' = Added(hist, "spheres")
    /\ UNCHANGED <<frame, camera, gl>>

\* Raytracer::clear_scene
ClearScene ==
    /\ scene' = SceneAddPlane(SceneNew, GroundPlane)
    /\ hist' = Rebased(hist, scene')
    /\ call' = [op |-> "clear_scene"]
    /\ UNCHANGED <<frame, camera, gl>>

\* the mutant of LoadResult: a failed import resets the scene
LoadResultReset(s, parsed) == IF parsed.ok THEN parsed.v ELSE SceneNew

\* Raytracer::load_scene_json: the scene after the call, given what
\* Scene::from_json returned (`?` returns before the assignment on Err)
LoadResult(s, parsed) == IF parsed.ok THEN parsed.v ELSE s

LoadSceneJson(names) ==
    \E name \in names :
      /\ DocAvailable(name)
      /\ LET parsed == IF name = "exported" THEN FromJson(call.ret)
                                            ELSE ParsedDocs[name]
         IN /\ scene' = LoadResult(scene, parsed)
            /\ hist' = IF parsed.ok /\ name # "exported" THEN Rebased(hist, scene')
                                                         ELSE hist
            /\ call' = [op |-> "load_scene_json", doc |-> name, ok |-> parsed.ok]
      /\ UNCHANGED <<frame, camera, gl>>

\* Raytracer::export_scene_json
ExportSceneJson ==
    /\ call' = [op |-> "export_scene_json", ret |-> ToJson(scene)]
    /\ UNCHANGED <<frame, camera, scene, gl, hist>>

\* Raytracer::get_sphere_count
GetSphereCount ==
    /\ call' = [op |-> "get_sphere_count", ret |-> Len(scene.spheres)]
    /\ UNCHANGED <<frame, camera, scene, gl, hist>>

\* Raytracer::get_sphere_position (index is zero-based)
SpherePosition(s, index) ==
    IF index < Len(s.spheres)
    THEN LET pos == s.spheres[index + 1].center IN <<pos.x, pos.y, pos.z>>
    ELSE <<0, 0, 0>>

GetSpherePosition ==
    /\ \E index \in Indices :
         call' = [op |-> "get_sphere_position", index |-> index,
                  ret |-> SpherePosition(scene, index)]
    /\ UNCHANGED <<frame, camera, scene, gl, hist>>

\* the mutant of SphereRadius: the default of an out-of-range read is 0.0
SphereRadiusZeroDefault(s, index) ==
    IF index < Len(s.spheres) THEN s.spheres[index + 1].radius ELSE 0

\* Raytracer::get_sphere_radius
SphereRadius(s, index) ==
    IF index < Len(s.spheres) THEN s.spheres[index + 1].radius ELSE Scale

GetSphereRadius ==
    /\ \E index \in Indices :
         call' = [op |-> "get_sphere_radius", index |-> index,
                  ret |-> SphereRadius(scene, index)]
    /\ UNCHANGED <<frame, camera, scene, gl, hist>>

\* Raytracer::set_sphere_position
WithSpherePosition(s, index, p) ==
    IF index < Len(s.spheres)
    THEN [s EXCEPT !.spheres[index + 1].center = p]
    ELSE s

SetSpherePosition ==
    /\ \E index \in WriteIndices, p \in Positions :
         /\ scene' = WithSpherePosition(scene, index, p)
         /\ call' = [op |-> "set_sphere_position", index |-> index]
    /\ UNCHANGED <<frame, camera, gl, hist>>

\* the mutant of WithSphereRadius: an out-of-range index is clamped to the
\* last sphere
WithSphereRadiusClamped(s, index, radius) ==
    IF Len(s.spheres) = 0 THEN s
    ELSE [s EXCEPT !.spheres[Min(index + 1, Len(s.spheres))].radius = radius]

\* Raytracer::set_sphere_radius
WithSphereRadius(s, index, radius) ==
    IF index < Len(s.spheres)
    THEN [s EXCEPT !.spheres[index + 1].radius = radius]
    ELSE s

SetSphereRadius ==
    /\ \E index \in WriteIndices, radius \in Radii :
         /\ scene' = WithSphereRadius(scene, index, radius)
         /\ call' = [op |-> "set_sphere_radius", index |-> index]
    /\ UNCHANGED <<frame, camera, gl, hist>>

\* Raytracer::set_sphere_material
WithSphereMaterial(s, index, r, g, b, code) ==
    IF index < Len(s.spheres)
    THEN [s EXCEPT !.spheres[index + 1].material =
             MaterialNew(MaterialTypeOfCode(code), Vec3(r, g, b),
                         Scale \div 10, 15 * (Scale \div 10))]
    ELSE s

SetSphereMaterial(args) ==
    /\ \E index \in WriteIndices, a \in args :
         /\ scene' = WithSphereMaterial(scene, index, a[1], a[2], a[3], a[4])
         /\ call' = [op |-> "set_sphere_material", index |-> index,
                  material_type |-> a[4]]
    /\ UNCHANGED <<frame, camera, gl, hist>>

\* the mutant of RemoveAt: Vec::swap_remove, the last entry takes the place
\* of the removed one
RemoveAtSwap(seq, index) ==
    [j \in 1..(Len(seq) - 1) |-> IF j = index + 1 THEN seq[Len(seq)] ELSE seq[j]]

\* Vec::remove
RemoveAt(seq, index) ==
    [j \in 1..(Len(seq) - 1) |-> IF j <= index THEN seq[j] ELSE seq[j + 1]]

\* Raytracer::remove_sphere
WithoutSphere(s, index) ==
    IF index < Len(s.spheres)
    THEN [s EXCEPT !.spheres = RemoveAt(@, index)]
    ELSE s

RemoveSphere ==
    /\ \E index \in Indices :
         /\ scene' = WithoutSphere(scene, index)
         /\ call' = [op |-> "remove_sphere", index |-> index]
    /\ UNCHANGED <<frame, camera, gl, hist>>

(***************************************************************************)
(* Calls of Scene::add_* on the Raytracer's scene (scene.rs)               *)
(***************************************************************************)
Scene_add_sphere ==
    /\ AddsTotal(hist) < MaxAdds
    /\ \E e \in ExtraSpheres : scene' = SceneAddSphere(scene, e)
    /\ hist' = Added(hist, "spheres")
    /\ call' = [op |-> "Scene::add_sphere"]
    /\ UNCHANGED <<frame, camera, gl>>

Scene_add_plane ==
    /\ AddsTotal(hist) < MaxAdds
    /\ \E e \in ExtraPlanes : scene' = SceneAddPlane(scene, e)
    /\ hist' = Added(hist, "planes")
    /\ call' = [op |-> "Scene::add_plane"]
    /\ UNCHANGED <<frame, camera, gl>>

Scene_add_box ==
    /\ AddsTotal(hist) < MaxAdds
    /\ \E e \in ExtraBoxes : scene' = SceneAddBox(scene, e)
    /\ hist' = Added(hist, "boxes")
    /\ call' = [op |-> "Scene::add_box"]
    /\ UNCHANGED <<frame, camera, gl>>

Scene_add_cylinder ==
    /\ AddsTotal(hist) < MaxAdds
    /\ \E e \in ExtraCylinders : scene' = SceneAddCylinder(scene, e)
    /\ hist' = Added(hist, "cylinders")
    /\ call' = [op |-> "Scene::add_cylinder"]
    /\ UNCHANGED <<frame, camera, gl>>

Scene_add_triangle ==
    /\ AddsTotal(hist) < MaxAdds
    /\ \E e \in ExtraTriangles : scene' = SceneAddTriangle(scene, e)
    /\ hist' = Added(hist, "triangles")
    /\ call' = [op |-> "Scene::add_triangle"]
    /\ UNCHANGED <<frame, camera, gl>>

Scene_add_light ==
    /\ AddsTotal(hist) < MaxAdds
    /\ \E e \in ExtraLights : scene' = SceneAddLight(scene, e)
    /\ hist' = Added(hist, "lights")
    /\ call' = [op |-> "Scene::add_light"]
    /\ UNCHANGED <<frame, camera, gl>>

(***************************************************************************)
(* Camera calls (lib.rs, camera.rs)                                        *)
(***************************************************************************)
\* Raytracer::rotate_camera
RotateCamera ==
    /\ \E a \in RotateArgs :
         /\ Abs(camera.yaw + a[1]) <= MaxYaw
         /\ camera' = CameraRotate(camera, a[1], a[2])
         /\ call' = [op |-> "rotate", pitch_delta |-> a[2]]
    /\ UNCHANGED <<frame, scene, gl, hist>>

\* Raytracer::move_camera
MoveCamera ==
    /\ camera.position = CameraStart
    /\ \E a \in MoveArgs :
         /\ camera' = CameraMoveRelative(camera, a[1], a[2], a[3])
         /\ InBox(camera'.position)
         /\ call' = [op |-> "move_relative", forward |-> a[1],
                     right |-> a[2], up |-> a[3]]
    /\ UNCHANGED <<frame, scene, gl, hist>>

\* Raytracer::set_camera_target
SetCameraTarget ==
    /\ \E t \in Targets :
         /\ camera' = CameraSetTarget(camera, t)
         /\ call' = [op |-> "set_target", target |-> t]
    /\ UNCHANGED <<frame, scene, gl, hist>>

\* Camera::look_at
LookAt ==
    /\ \E t \in Targets :
         /\ camera' = CameraLookAt(camera, t)
         /\ call' = [op |-> "look_at", target |-> t]
    /\ UNCHANGED <<frame, scene, gl, hist>>

\* Raytracer::get_fps
GetFps ==
    /\ call' = [op |-> "get_fps", ret |-> frame.fps]
    /\ UNCHANGED <<frame, camera, scene, gl, hist>>

\* Raytracer::set_camera_position
SetCameraPosition ==
    /\ \E p \in CameraPositions :
         /\ camera' = CameraSetPosition(camera, p)
         /\ call' = [op |-> "set_position", position |-> p]
    /\ UNCHANGED <<frame, scene, gl, hist>>

\* Camera::move_absolute
MoveAbsolute ==
    /\ \E p \in CameraPositions :
         /\ camera' = CameraMoveAbsolute(camera, p)
         /\ call' = [op |-> "move_absolute", position |-> p]
    /\ UNCHANGED <<frame, scene, gl, hist>>

(***************************************************************************)
(* Fragment shader (shaders.rs)                                            *)
(***************************************************************************)
\* the bounds of `for (int i = 0; i < 10; i++)` in randomInUnitSphere and of
\* hitWorld(ray, 0.001, 100.0) in rayColor
MaxTries == 10

TMin == 1

TMax == 100 * Scale

\* sqrt of a non-negative fixed-point number
FSqrt(a) == IF a <= 2 * Scale * Scale THEN RSqrt(a * Scale)
            ELSE WSqrt(WMul(a, Scale))

\* randomInUnitSphere: tries[i] is the i-th candidate 2 * vec3(random) - 1;
\* the first one inside the unit sphere is returned, else the last one
RandomInUnitSphere(tries) ==
    LET inside == {i \in 1..MaxTries : Dot(tries[i], tries[i]) < Scale}
    IN IF inside = {} THEN tries[MaxTries]
       ELSE tries[CHOOSE i \in inside : \A j \in inside : i <= j]

\* reflectRay: v - 2 * dot(v, n) * n
ReflectRay(v, n) == VSub(v, VMulS(n, 2 * Dot(v, n)))

\* the record hitSphere fills for one root temp
HitRecord(sphere, ray, temp) ==
    LET point == VAdd(ray.origin, VMulS(ray.direction, temp))
        offset == VSub(point, sphere.center)
        outward_normal == Vec3(FDiv(offset.x, sphere.radius),
                               FDiv(offset.y, sphere.radius),
                               FDiv(offset.z, sphere.radius))
        front_face == Dot(ray.direction, outward_normal) < 0
    IN [hit |-> TRUE, t |-> temp, point |-> point,
        normal |-> IF front_face THEN outward_normal
                                 ELSE VMulS(outward_normal, -Scale),
        front_face |-> front_face, albedo |-> sphere.albedo,
        material_type |-> sphere.material_type,
        roughness |-> sphere.roughness, ior |-> sphere.ior]

\* the mutant of HitSphere: only the near root is tried
HitSphereNearOnly(sphere, ray, t_min, t_max) ==
    LET oc == VSub(ray.origin, sphere.center)
        a == Dot(ray.direction, ray.direction)
        b == Dot(oc, ray.direction)
        c == Dot(oc, oc) - FMul(sphere.radius, sphere.radius)
        discriminant == FMul(b, b) - FMul(a, c)
        near == FDiv(-b - FSqrt(discriminant), a)
    IN IF discriminant > 0 /\ near < t_max /\ near > t_min
         THEN HitRecord(sphere, ray, near)
       ELSE [hit |-> FALSE]

\* the mutant of HitSphere: the far root is tried first
HitSphereFarRoot(sphere, ray, t_min, t_max) ==
    LET oc == VSub(ray.origin, sphere.center)
        a == Dot(ray.direction, ray.direction)
        b == Dot(oc, ray.direction)
        c == Dot(oc, oc) - FMul(sphere.radius, sphere.radius)
        discriminant == FMul(b, b) - FMul(a, c)
        near == FDiv(-b - FSqrt(discriminant), a)
        far == FDiv(-b + FSqrt(discriminant), a)
    IN IF discriminant > 0 /\ far < t_max /\ far > t_min
         THEN HitRecord(sphere, ray, far)
       ELSE IF discriminant > 0 /\ near < t_max /\ near > t_min
         THEN HitRecord(sphere, ray, near)
       ELSE [hit |-> FALSE]

\* hitSphere
HitSphere(sphere, ray, t_min, t_max) ==
    LET oc == VSub(ray.origin, sphere.center)
        a == Dot(ray.direction, ray.direction)
        b == Dot(oc, ray.direction)
        c == Dot(oc, oc) - FMul(sphere.radius, sphere.radius)
        discriminant == FMul(b, b) - FMul(a, c)
        near == FDiv(-b - FSqrt(discriminant), a)
        far == FDiv(-b + FSqrt(discriminant), a)
    IN IF discriminant > 0 /\ near < t_max /\ near > t_min
         THEN HitRecord(sphere, ray, near)
       ELSE IF discriminant > 0 /\ far < t_max /\ far > t_min
         THEN HitRecord(sphere, ray, far)
       ELSE [hit |-> FALSE]

\* a dot product kept in millionths, the precision the threshold 0.0001 of
\* hitPlane needs
Dot6(a, b) == a.x * b.x + a.y * b.y + a.z * b.z

\* num / den as a fixed-point number, num and den in the same unit, den # 0;
\* a quotient beyond the explored range counts as infinite
Quotient(num, den) ==
    LET sign == IF (num < 0) = (den < 0) THEN 1 ELSE -1
        n == Abs(num)
        d == Abs(den)
    IN IF n \div d >= Scale * Scale THEN sign * F32Infinity
       ELSE sign * ((n \div d) * Scale + RDiv((n % d) * Scale, d))

\* the record hitPlane fills
PlaneRecord(plane, ray, t, denom) ==
    [hit |-> TRUE, t |-> t,
     point |-> VAdd(ray.origin, VMulS(ray.direction, t)),
     normal |-> IF denom < 0 THEN plane.normal
                             ELSE VMulS(plane.normal, -Scale),
     front_face |-> denom < 0, albedo |-> plane.albedo,
     material_type |-> plane.material_type,
     roughness |-> 0, ior |-> Scale]

\* the mutant of HitPlane: every nonzero denominator is divided by
HitPlaneNoThreshold(plane, ray, t_min, t_max) ==
    LET denom == Dot6(plane.normal, ray.direction)
        t == Quotient(Dot6(VSub(plane.point, ray.origin), plane.normal), denom)
    IN IF denom # 0 /\ t >= t_min /\ t <= t_max
         THEN PlaneRecord(plane, ray, t, denom)
       ELSE [hit |-> FALSE]

\* hitPlane: abs(denom) > 0.0001, then t >= t_min && t <= t_max
HitPlane(plane, ray, t_min, t_max) ==
    LET denom == Dot6(plane.normal, ray.direction)
        t == Quotient(Dot6(VSub(plane.point, ray.origin), plane.normal), denom)
    IN IF Abs(denom) > (Scale * Scale) \div 10000 /\ t >= t_min /\ t <= t_max
         THEN PlaneRecord(plane, ray, t, denom)
       ELSE [hit |-> FALSE]

\* the scene uniforms the fragment shader declares, out of the uniforms su
\* that Scene::set_uniforms writes: the spheres, planes and lights; it
\* declares no uniform for boxes, cylinders, triangles or the background
\* colour, whose locations are None
ProgramScene(su) ==
    [u_sphere_count |-> su.u_sphere_count, u_spheres |-> su.u_spheres,
     u_plane_count  |-> su.u_plane_count,  u_planes  |-> su.u_planes,
     u_light_count  |-> su.u_light_count,  u_lights  |-> su.u_lights]

\* the one element of a set of one element: Only({e(x) : x \in {v}}) is
\* e(v) with v computed once
Only(S) == CHOOSE x \in S : TRUE

\* the loops of hitWorld from the i-th live primitive on, the spheres
\* before the planes; acc holds rec, closest_so_far and, for each accepted
\* candidate, its t and the closest_so_far it was tested against
RECURSIVE HitWorldFrom(_, _, _, _, _)
HitWorldFrom(u, i, ray, t_min, acc) ==
    IF i > u.u_sphere_count + u.u_plane_count THEN acc
    ELSE Only({HitWorldFrom(u, i + 1, ray, t_min, next) :
           next \in
             {IF temp_rec.hit
              THEN [rec |-> temp_rec, closest_so_far |-> temp_rec.t,
                    accepted |-> Append(acc.accepted,
                                        <<temp_rec.t, acc.closest_so_far>>)]
              ELSE acc :
                temp_rec \in
                  {IF i <= u.u_sphere_count
                   THEN HitSphere(u.u_spheres[i], ray, t_min,
                                  acc.closest_so_far)
                   ELSE HitPlane(u.u_planes[i - u.u_sphere_count], ray, t_min,
                                 acc.closest_so_far)}}})

\* hitWorld: rec is the record returned, rec.hit being hit_anything
HitWorld(u, ray, t_min, t_max) ==
    HitWorldFrom(u, 1, ray, t_min,
                 [rec |-> [hit |-> FALSE], closest_so_far |-> t_max,
                  accepted |-> <<>>])

\* the mutant of MetalDirection: the roughness term is left out
MetalDirectionMirror(rec, ray, random) ==
    Normalize(ReflectRay(Normalize(ray.direction), rec.normal))

\* the metal branch of rayColor: normalize(reflected + roughness * random)
MetalDirection(rec, ray, random) ==
    Normalize(VAdd(ReflectRay(Normalize(ray.direction), rec.normal),
                   VMulS(random, rec.roughness)))

\* the mutant of TotalInternalReflection: the ratio of the back face is
\* used on the front face
TotalInternalReflectionSwapped(rec, ray) ==
    LET ni_over_nt == IF rec.front_face THEN rec.ior ELSE FDiv(Scale, rec.ior)
        cos_theta == Min(Dot(VMulS(Normalize(ray.direction), -Scale),
                             rec.normal), Scale)
        radicand == Scale - FMul(cos_theta, cos_theta)
    IN radicand >= 0 /\ FMul(ni_over_nt, FSqrt(radicand)) > Scale

\* the dielectric branch of rayColor: ni_over_nt * sin_theta > 1.0; the
\* square root of a negative number is NaN, which compares false
TotalInternalReflection(rec, ray) ==
    LET ni_over_nt == IF rec.front_face THEN FDiv(Scale, rec.ior) ELSE rec.ior
        cos_theta == Min(Dot(VMulS(Normalize(ray.direction), -Scale),
                             rec.normal), Scale)
        radicand == Scale - FMul(cos_theta, cos_theta)
    IN radicand >= 0 /\ FMul(ni_over_nt, FSqrt(radicand)) > Scale

\* the branch one iteration of the loop of rayColor takes on rec
Scatter(rec, ray, random) ==
    IF ~rec.hit THEN "sky"
    ELSE IF rec.material_type = 0 THEN "lambertian"
    ELSE IF rec.material_type = 1
      THEN IF Dot(MetalDirection(rec, ray, random), rec.normal) <= 0
             THEN "absorbed" ELSE "metal"
    ELSE IF rec.material_type = 2
      THEN IF TotalInternalReflection(rec, ray)
             THEN "total_internal_reflection" ELSE "fresnel"
    ELSE "unscattered"

\* the component-wise product of two colours
VMul(a, b) == Vec3(FMul(a.x, b.x), FMul(a.y, b.y), FMul(a.z, b.z))

\* the mutant of InShadow: no shadow ray is cast
InShadowNever(u, rec, light) == FALSE

\* the shadow test of rayColor for one light: hitWorld on the ray from
\* rec.point + rec.normal * 0.001 towards the light, within
\* (0.001, light_distance - 0.001)
InShadow(u, rec, light) ==
    LET to_light == VSub(light.position, rec.point)
    IN Only({HitWorld(u, shadow_ray, TMin, light_distance - 1).rec.hit :
               shadow_ray \in {[origin |-> VAdd(rec.point, VMulS(rec.normal, 1)),
                                direction |-> Normalize(to_light)]},
               light_distance \in {Length(to_light)}})

\* what the light loop of rayColor adds to diffuse from the i-th light on:
\* the loop runs over i < 4 and breaks at u_light_count
RECURSIVE DiffuseFrom(_, _, _)
DiffuseFrom(u, rec, i) ==
    IF i > 4 \/ i > u.u_light_count THEN V(0, 0, 0)
    ELSE LET light == u.u_lights[i]
             to_light == VSub(light.position, rec.point)
             light_distance == Length(to_light)
             n_dot_l == LET d == Dot(rec.normal, Normalize(to_light))
                        IN IF d > 0 THEN d ELSE 0
             attenuation_factor ==
                 FDiv(light.intensity,
                      FMul(light_distance, light_distance) + Scale)
         IN VAdd(IF InShadow(u, rec, light) THEN V(0, 0, 0)
                 ELSE VMulS(VMulS(light.color, n_dot_l), attenuation_factor),
                 DiffuseFrom(u, rec, i + 1))

\* lighting of rayColor: ambient + diffuse, ambient being vec3(0.25)
Lighting(u, rec) ==
    VAdd(Vec3(Scale \div 4, Scale \div 4, Scale \div 4), DiffuseFrom(u, rec, 1))

\* the sky branch of rayColor: mix(vec3(1.0), vec3(0.5, 0.7, 1.0), t) with
\* t = 0.5 * (normalize(ray.direction).y + 1.0)
SkyColor(direction) ==
    LET t == FMul(Scale \div 2, Normalize(direction).y + Scale)
    IN VAdd(VMulS(V(1, 1, 1), Scale - t), VMulS(Rgb(5, 7, 10), t))

\* refract: ok is the value returned, refracted the direction written
Refract(uv, n, ni_over_nt) ==
    LET dt == Dot(uv, n)
        discriminant == Scale - FMul(FMul(ni_over_nt, ni_over_nt),
                                     Scale - FMul(dt, dt))
    IN IF discriminant > 0
       THEN [ok |-> TRUE,
             refracted |-> VSub(VMulS(VSub(uv, VMulS(n, dt)), ni_over_nt),
                                VMulS(n, FSqrt(discriminant)))]
       ELSE [ok |-> FALSE]

\* schlick: r0 + (1 - r0) * pow(1 - cosine, 5)
Schlick(cosine, ior) ==
    LET r == FDiv(Scale - ior, Scale + ior)
        r0 == FMul(r, r)
        x == Scale - cosine
        x2 == FMul(x, x)
    IN r0 + FMul(Scale - r0, FMul(FMul(x2, x2), x))

\* the bound of the loop of rayColor
MaxDepth == 8

\* the mutant of Breaks: the loop goes on after the metal branch absorbed
BreaksAtSky(scatter) == scatter = "sky"

\* the branches of rayColor that end in break
Breaks(scatter) == scatter \in {"sky", "absorbed"}

\* the mutant of Attenuated: the absorbed colour is attenuated like the rest
AttenuatedOnly(color, scatter, attenuation) == VMul(color, attenuation)

\* color after the scatter of one iteration: vec3(0.0) where the metal
\* branch absorbed, color * attenuation otherwise
Attenuated(color, scatter, attenuation) ==
    IF scatter = "absorbed" THEN V(0, 0, 0) ELSE VMul(color, attenuation)

\* one iteration of the loop of rayColor on the uniforms u: the record of
\* hitWorld, the lighting, the branch taken, the ray and the colour it
\* leaves; random is the value of randomInUnitSphere and chance that of
\* random(seed + float(depth) * 10.0); every uploaded material_type is 0, 1
\* or 2
RayColorStep(u, ray, color, random, chance) ==
  Only({Only({
    IF ~rec.hit
       THEN [rec |-> rec, scatter |-> "sky", ray |-> ray,
             lighting |-> V(0, 0, 0),
             color |-> VMul(color, SkyColor(ray.direction))]
       ELSE
         LET scatter == Scatter(rec, ray, random)
             lit == VMul(color, VMul(rec.albedo, lighting))
             unit_direction == Normalize(ray.direction)
             mirrored == [origin |-> VAdd(rec.point, VMulS(rec.normal, 1)),
                          direction |-> ReflectRay(unit_direction, rec.normal)]
             ni_over_nt == IF rec.front_face THEN FDiv(Scale, rec.ior)
                                             ELSE rec.ior
             cos_theta == Min(Dot(VMulS(unit_direction, -Scale), rec.normal),
                              Scale)
             bent == Refract(unit_direction, rec.normal, ni_over_nt)
             next ==
               CASE scatter = "lambertian" ->
                      [origin |-> rec.point,
                       direction |-> Normalize(VAdd(rec.normal, random))]
                 [] scatter \in {"metal", "absorbed"} ->
                      [origin |-> rec.point,
                       direction |-> MetalDirection(rec, ray, random)]
                 [] scatter = "total_internal_reflection" -> mirrored
                 [] scatter = "fresnel" ->
                      IF chance < Schlick(cos_theta, rec.ior) THEN mirrored
                      ELSE IF bent.ok
                        THEN [origin |-> VSub(rec.point, VMulS(rec.normal, 1)),
                              direction |-> bent.refracted]
                      ELSE mirrored
             attenuation ==
               CASE rec.material_type \in {0, 1} -> rec.albedo
                 [] rec.material_type = 2 ->
                      VAdd(VMulS(rec.albedo, 95 * (Scale \div 100)),
                           Vec3(Scale \div 20, Scale \div 20, Scale \div 20))
         IN [rec |-> rec, scatter |-> scatter, ray |-> next,
             lighting |-> lighting,
             color |-> Attenuated(lit, scatter, attenuation)] :
      lighting \in {IF rec.hit THEN Lighting(u, rec) ELSE V(0, 0, 0)}}) :
    rec \in {HitWorld(u, ray, TMin, TMax).rec}})

\* shader inputs: unit spheres of each material at the origin, one
\* Lambertian sphere at (5, 5, 5)
ShaderSpheres ==
    {UploadSphere(SphereNew(V(0, 0, 0), Scale, m)) :
        m \in {MaterialNew("Lambertian", Rgb(200, 200, 200), 0, Scale),
               MaterialNew("Metal", Rgb(200, 200, 200), Scale, Scale),
               MaterialNew("Metal", Rgb(200, 200, 200), 0, Scale),
               MaterialNew("Dielectric", Rgb(255, 255, 255), 0, Scale),
               MaterialNew("Dielectric", Rgb(255, 255, 255), 0, 15 * (Scale \div 10)),
               MaterialNew("Dielectric", Rgb(255, 255, 255), 0, 24 * (Scale \div 10))}}
    \cup {UploadSphere(SphereNew(V(5, 5, 5), Scale,
              MaterialNew("Lambertian", Rgb(200, 200, 200), 0, Scale)))}

\* rays from (0, 0, 5): head-on, oblique, grazing, past the sphere, away
\* from it and towards (5, 5, 5); rays that start inside the unit sphere
ShaderRays ==
    {[origin |-> V(0, 0, 5), direction |-> d] :
        d \in {Vec3(0, 0, -1000), Vec3(100, 0, -995), Vec3(0, 196, -981),
               Vec3(287, 0, -958), Vec3(0, 0, 1000), Vec3(707, 707, 0)}}
    \cup {[origin |-> Vec3(0, 900, 0), direction |-> Vec3(0, 0, -1000)],
          [origin |-> V(0, 0, 0), direction |-> Vec3(0, 0, -1000)]}

\* candidate sequences of randomInUnitSphere: accepted at once, accepted at
\* the third try, never accepted
RandomTries ==
    {[i \in 1..MaxTries |-> p] :
        p \in {Vec3(0, 0, -900), Vec3(0, -900, 0), Vec3(0, 0, 900),
               Vec3(-600, -600, 0), Vec3(-999, -999, -999)}}
    \cup {[i \in 1..MaxTries |-> IF i < 3 THEN Vec3(900, 900, 900)
                                          ELSE Vec3(100, 100, 100)]}

\* hitSphere applied to one sphere and one ray
ShaderHitSphere(t_maxima) ==
    /\ \E sphere \in ShaderSpheres, ray \in ShaderRays, t_max \in t_maxima :
         call' = [op |-> "hitSphere", sphere |-> sphere, ray |-> ray,
                  t_min |-> TMin, t_max |-> t_max,
                  rec |-> HitSphere(sphere, ray, TMin, t_max)]
    /\ UNCHANGED <<frame, camera, scene, gl, hist>>

\* upper ends of the interval hitSphere is called with: that of rayColor
\* and values closest_so_far takes in hitWorld
SphereMaxima == {TMax, 45 * (Scale \div 10), 3 * Scale}

\* planes: z = 1 facing the rays from (0, 0, 5), the ground y = -1, the
\* plane z = -95 at distance 100 from (0, 0, 5), and a plane through a point
\* next to (0, 0, 5) that the ray along (0.999, -0.001, 0) almost lies in
ShaderPlanes ==
    {UploadPlane(PlaneNew(p[1], p[2],
                          MaterialNew("Lambertian", Rgb(5, 5, 5), 0, 0))) :
        p \in {<<V(0, 0, 1), V(0, 0, 1)>>, <<V(0, -1, 0), V(0, 1, 0)>>,
               <<V(0, 0, -95), V(0, 0, 1)>>,
               <<Vec3(-50, 0, 5000), Vec3(1, 1000, 0)>>}}

\* the rays of ShaderRays and rays from (0, 0, 5) along and almost along
\* the x axis
PlaneRays ==
    ShaderRays
    \cup {[origin |-> V(0, 0, 5), direction |-> d] :
            d \in {Vec3(1000, 0, 0), Vec3(999, -1, 0), Vec3(995, -100, 0)}}

PlaneMaxima == {TMax, 4 * Scale}

\* hitPlane applied to one plane and one ray
ShaderHitPlane ==
    /\ \E plane \in ShaderPlanes, ray \in PlaneRays, t_max \in PlaneMaxima :
         call' = [op |-> "hitPlane", plane |-> plane, ray |-> ray,
                  t_min |-> TMin, t_max |-> t_max,
                  rec |-> HitPlane(plane, ray, TMin, t_max)]
    /\ UNCHANGED <<frame, camera, scene, gl, hist>>

\* scenes for hitWorld: the default scene, the empty scene, a unit sphere
\* touching the plane z = 1, the plane z = -95, and a box, a cylinder and a
\* triangle around (5, 5, 5)
ShaderWorlds ==
    LET grey == MaterialNew("Lambertian", Rgb(5, 5, 5), 0, Scale)
    IN {DefaultScene, SceneNew,
        SceneAddPlane(SceneAddSphere(SceneNew, SphereNew(V(0, 0, 0), Scale, grey)),
                      PlaneNew(V(0, 0, 1), V(0, 0, 1), grey)),
        SceneAddPlane(SceneNew, PlaneNew(V(0, 0, -95), V(0, 0, 1), grey)),
        SceneAddBox(SceneNew, BoxNew(V(5, 5, 5), V(1, 1, 1), grey)),
        SceneAddCylinder(SceneNew, CylinderNew(V(5, 4, 5), V(0, 2, 0), Scale, grey)),
        SceneAddTriangle(SceneNew,
            TriangleNew(V(4, 6, 4), V(6, 4, 4), V(5, 5, 7), grey))}

\* hitWorld applied to the uniforms of one scene and one ray
ShaderHitWorld ==
    /\ \E world \in ShaderWorlds, ray \in ShaderRays :
         \E u \in {ProgramScene(SetUniforms(world))} :
         \E found \in {HitWorld(u, ray, TMin, TMax)} :
            call' = [op |-> "hitWorld", world |-> world, ray |-> ray,
                     t_min |-> TMin, t_max |-> TMax,
                     rec |-> found.rec, accepted |-> found.accepted]
    /\ UNCHANGED <<frame, camera, scene, gl, hist>>

\* one iteration of the loop of rayColor in a world of one sphere, for the
\* sphere and the ray of the last hit test
ShaderRayColor ==
    /\ call.op = "hitSphere"
    /\ \E tries \in RandomTries :
         LET rec == HitSphere(call.sphere, call.ray, TMin, TMax)
             random == RandomInUnitSphere(tries)
         IN call' = [op |-> "rayColor", sphere |-> call.sphere,
                     ray |-> call.ray, rec |-> rec, random |-> random,
                     scatter |-> Scatter(rec, call.ray, random)]
    /\ UNCHANGED <<frame, camera, scene, gl, hist>>

\* scenes for rayColor: the default scene; two facing mirrors y = -1 and
\* y = 1 under another background colour; a rough metal sphere; a grey
\* sphere on the ground under a light above it, a light in the plane of the
\* ground, a light of intensity zero and a light beside the rays' origin; a
\* grey sphere under a light of negative intensity; a grey sphere and a
\* light in the tangent plane of its point (0, 0, 1)
PathWorlds ==
    LET grey == MaterialNew("Lambertian", Rgb(5, 5, 5), 0, Scale)
        mirror == MaterialNew("Metal", Rgb(9, 9, 9), 0, Scale)
        rough == MaterialNew("Metal", Rgb(9, 9, 9), Scale, Scale)
        ball == SceneAddSphere(SceneNew, SphereNew(V(0, 0, 0), Scale, grey))
        lit == SceneAddPlane(ball, PlaneNew(V(0, -1, 0), V(0, 1, 0), grey))
    IN {DefaultScene,
        SceneSetBackground(
            SceneAddPlane(
                SceneAddPlane(SceneNew, PlaneNew(V(0, -1, 0), V(0, 1, 0), mirror)),
                PlaneNew(V(0, 1, 0), V(0, -1, 0), mirror)),
            Rgb(1, 2, 3)),
        SceneAddLight(
            SceneAddSphere(SceneNew, SphereNew(V(0, 0, 0), Scale, rough)),
            LightNew(V(0, 5, 5), Rgb(10, 10, 10), 20 * Scale)),
        SceneAddLight(SceneAddLight(SceneAddLight(SceneAddLight(lit,
            LightNew(V(0, 5, 0), Rgb(10, 10, 10), 20 * Scale)),
            LightNew(V(5, -1, 5), Rgb(10, 10, 10), 20 * Scale)),
            LightNew(V(0, 5, 5), Rgb(10, 10, 10), 0)),
            LightNew(V(1, 0, 5), Rgb(10, 10, 10), 20 * Scale)),
        SceneAddLight(ball, LightNew(V(1, 0, 5), Rgb(10, 10, 10), -20 * Scale)),
        SceneAddLight(ball, LightNew(V(3, 0, 1), Rgb(10, 10, 10), 20 * Scale))}

\* rays from (0, 0, 5): head-on, oblique, grazing, to the ground under the
\* unit sphere, sideways, and to the glass sphere of the default scene
PathRays ==
    {[origin |-> V(0, 0, 5), direction |-> d] :
        d \in {Vec3(0, 0, -1000), Vec3(100, 0, -995), Vec3(0, 196, -981),
               Vec3(0, -217, -976), Vec3(707, 707, 0), Vec3(316, 0, -949)}}

\* candidate sequences of randomInUnitSphere, each accepted at once
PathTries ==
    {[i \in 1..MaxTries |-> p] :
        p \in {Vec3(0, -900, 0), Vec3(-600, -600, 0)}}

\* values of random(seed + float(depth) * 10.0)
PathChances == {0, 999}

\* rayColor entered with one ray on the uniforms of one scene, the call
\* before it having returned: color is vec3(1.0) and no iteration has run
RayColorStart ==
    /\ call.op = "path" => call.status # "running" \/ call.depth = MaxDepth
    /\ \E world \in PathWorlds, ray \in PathRays :
         call' = [op |-> "path", world |-> world, ray |-> ray,
                  color |-> V(1, 1, 1), depth |-> 0, status |-> "running",
                  trace |-> <<>>]
    /\ UNCHANGED <<frame, camera, scene, gl, hist>>

\* the loop of rayColor runs one more iteration: depth < 8 and no break was
\* taken; trace keeps, per iteration, the ray and the colour it started
\* with and what RayColorStep found
RayColorIterate ==
    /\ call.op = "path"
    /\ call.status = "running"
    /\ call.depth < MaxDepth
    /\ \E tries \in PathTries, chance \in PathChances :
         \E u \in {ProgramScene(SetUniforms(call.world))},
            random \in {RandomInUnitSphere(tries)} :
         \E it \in {RayColorStep(u, call.ray, call.color, random, chance)} :
            call' = [call EXCEPT
                !.ray = it.ray, !.color = it.color, !.depth = @ + 1,
                !.status = IF Breaks(it.scatter) THEN it.scatter ELSE "running",
                !.trace = Append(@, [from |-> call.ray, color |-> call.color,
                                     rec |-> it.rec,
                                     scatter |-> it.scatter,
                                     lighting |-> it.lighting])]
    /\ UNCHANGED <<frame, camera, scene, gl, hist>>

\* the camera uniforms the fragment shader declares, as the program holds
\* them after a render handed g to the uniform calls: u_camera_pos is
\* uploaded; no call uploads u_camera_matrix, which keeps the zero a uniform
\* starts with; u_camera_forward, u_camera_right and u_camera_up are not
\* declared, their locations are None and uniform3f on them has no effect
ProgramCamera(g) ==
    [u_camera_pos    |-> g.u_camera_pos,
     u_camera_matrix |-> [x |-> V(0, 0, 0), y |-> V(0, 0, 0), z |-> V(0, 0, 0)]]

\* main: the directions the ray through uv can get,
\* normalize((u_camera_matrix * vec4(normalize(vec3(uv, -2.0)), 0.0)).xyz);
\* normalize of the zero vector is undefined in GLSL: zero or NaN
MainRayDirections(u, uv_x, uv_y) ==
    LET ray_dir == Normalize(Vec3(uv_x, uv_y, -2 * Scale))
        m == u.u_camera_matrix
        turned == VAdd(VAdd(VMulS(m.x, ray_dir.x), VMulS(m.y, ray_dir.y)),
                       VMulS(m.z, ray_dir.z))
    IN IF Length(turned) > 0 THEN {Normalize(turned)}
       ELSE {V(0, 0, 0), Vec3(F32Infinity, F32Infinity, F32Infinity)}

(***************************************************************************)
(* Specifications                                                          *)
(***************************************************************************)
\* growing the collections past their caps, exporting and rendering
NextCap ==
    \/ Scene_add_sphere
    \/ Scene_add_plane
    \/ Scene_add_box
    \/ Scene_add_cylinder
    \/ Scene_add_triangle
    \/ Scene_add_light
    \/ LoadSceneJson(CapDocNames)
    \/ ExportSceneJson
    \/ Render(SlowClock)

SpecCap == Init /\ [][NextCap]_vars

\* the sphere editing surface and the import/export of the scene
NextEdit ==
    \/ AddSphere(SphereArgs)
    \/ ClearScene
    \/ LoadSceneJson(EditDocNames)
    \/ ExportSceneJson
    \/ GetSphereCount
    \/ GetSpherePosition
    \/ GetSphereRadius
    \/ SetSpherePosition
    \/ SetSphereRadius
    \/ SetSphereMaterial(MaterialArgs)
    \/ RemoveSphere

SpecEdit == Init /\ [][NextEdit]_vars

\* the camera
NextCamera ==
    \/ RotateCamera
    \/ MoveCamera
    \/ SetCameraTarget
    \/ LookAt

SpecCamera == Init /\ [][NextCamera]_vars

\* the fragment shader's functions on bounded inputs
NextShader ==
    \/ ShaderHitSphere({TMax})
    \/ ShaderRayColor

SpecShader == Init /\ [][NextShader]_vars

\* rendering between camera and scene edits
NextFrame ==
    \/ Render(SteadyClock)
    \/ RotateCamera
    \/ AddSphere(SphereArgs)
    \/ ClearScene

SpecFrame == Init /\ [][NextFrame]_vars

\* the frame statistics over many renders
NextFps ==
    \/ Render(FastClock)
    \/ GetFps

SpecFps == Init /\ [][NextFps]_vars

\* the material codes of add_sphere and set_sphere_material
NextMaterial ==
    \/ AddSphere(CodedSphereArgs)
    \/ SetSphereMaterial(CodedMaterialArgs)
    \/ Render(SlowClock)

SpecMaterial == Init /\ [][NextMaterial]_vars

\* the camera placed at given positions
NextCameraPos ==
    \/ RotateCamera
    \/ SetCameraPosition
    \/ MoveAbsolute
    \/ SetCameraTarget
    \/ LookAt

SpecCameraPos == Init /\ [][NextCameraPos]_vars

\* the intersection functions of the fragment shader on bounded inputs
NextIntersect ==
    \/ ShaderHitSphere(SphereMaxima)
    \/ ShaderHitPlane
    \/ ShaderHitWorld

SpecIntersect == Init /\ [][NextIntersect]_vars

\* rayColor, iteration by iteration
NextPath ==
    \/ RayColorStart
    \/ RayColorIterate

SpecPath == Init /\ [][NextPath]_vars

(***************************************************************************)
(* Camera properties                                                       *)
(***************************************************************************)
\* what "within tolerance" allows on a component, a length or a dot product
Tolerance == Scale \div 50

Near(a, b) == Abs(a - b) <= Tolerance

VNear(a, b) == Near(a.x, b.x) /\ Near(a.y, b.y) /\ Near(a.z, b.z)

\* C8: after a call of rotate, whatever the pitch delta (+/-1000 degrees
\* included), the camera's pitch lies within [-89, +89] degrees
C8_PitchWithinLimit ==
    call.op = "rotate" => (-89 <= camera.pitch /\ camera.pitch <= 89)

\* a rotate by +1000 degrees of pitch has acted and the pitch stands at the limit
C8_Witness ==
    call.op = "rotate" /\ call.pitch_delta = 1000 /\ camera.pitch = 89

\* C9: after rotate and move calls, forward, right and up each have unit
\* length and their three pairwise dot products are zero within tolerance
C9_BasisOrthonormal ==
    call.op \in {"rotate", "move_relative"} =>
        /\ Near(Length(camera.forward), Scale)
        /\ Near(Length(camera.right), Scale)
        /\ Near(Length(camera.up), Scale)
        /\ Near(Dot(camera.forward, camera.right), 0)
        /\ Near(Dot(camera.forward, camera.up), 0)
        /\ Near(Dot(camera.right, camera.up), 0)

\* C10: after look_at(T) or set_target(T) with T different from the camera
\* position, forward equals normalize(T - position) within tolerance
C10_LookAtInverse ==
    (call.op \in {"look_at", "set_target"} /\ call.target # camera.position) =>
        VNear(camera.forward, Normalize(VSub(call.target, camera.position)))

\* C18: in every camera state the pitch lies strictly between -89 and +89
\* degrees, also after look_at or set_target towards a point straight above
\* or below the camera
C18_PitchStrictlyWithin ==
    -PitchLimit < camera.pitch /\ camera.pitch < PitchLimit

\* the horizontal direction of the camera's forward vector
HorizontalForward(c) == Normalize(Vec3(c.forward.x, 0, c.forward.z))

\* C19: move_relative(f, r, u) displaces the position by f along the
\* horizontal direction of the camera's forward vector, r along its right
\* vector and u along the world up axis
C19_MoveAlongCameraAxes ==
    [][call'.op = "move_relative" =>
         VNear(VSub(camera'.position, camera.position),
               VAdd(VAdd(VMulS(HorizontalForward(camera), call'.forward),
                         VMulS(camera.right, call'.right)),
                    VMulS(V(0, 1, 0), call'.up)))]_vars

\* C20: set_position(p) derives yaw and pitch anew from the direction from
\* p to the target, as set_target does, and then recomputes the basis
C20_SetPositionRederives ==
    [][call'.op = "set_position" =>
         LET direction == Normalize(VSub(camera.target, call'.position))
         IN /\ camera'.position = call'.position
            /\ camera'.yaw = Atan2(direction.z, direction.x)
            /\ camera'.pitch = Asin(direction.y)
            /\ camera' = UpdateVectors(camera')]_vars

\* C21: the camera built by Raytracer::new from position (0, 2, 5) and
\* target (0, 0, 0) has fov 45 degrees, near 0.1 and far 100, looks at the
\* target, forward being normalize(target - position), and get_target() lies
\* on the line of sight through the target
C21_NewLooksAtTarget ==
    call.op = "new" =>
        LET sight == Normalize(VSub(V(0, 0, 0), camera.position))
        IN /\ camera.fov = DefaultFov
           /\ camera.near = Scale \div 10
           /\ camera.far = 100 * Scale
           /\ VNear(camera.forward, sight)
           /\ VNear(Normalize(VSub(CameraGetTarget(camera), camera.position)),
                    sight)

\* C22: in every camera state get_target() equals position + forward
C22_TargetFollowsCamera ==
    CameraGetTarget(camera) = VAdd(camera.position, camera.forward)

(***************************************************************************)
(* Capacity properties                                                     *)
(***************************************************************************)
\* a rendered collection: the live count is min(stored count, cap) and the
\* slots written are the uploads of the first min(stored count, cap) entries,
\* in insertion order
Truncated(count, slots, seq, cap, Upload(_)) ==
    LET n == IF Len(seq) < cap THEN Len(seq) ELSE cap
    IN /\ count = n
       /\ Len(slots) = n
       /\ \A i \in 1..n : slots[i] = Upload(seq[i])

\* C1: a render publishes, for each primitive type and for lights, a live
\* count of min(stored count, cap), caps 10/5/5/5/10/4, and uploads exactly
\* the first min(stored count, cap) entries in insertion order; no entry at an
\* index >= cap is uploaded
C1_RenderTruncates ==
    call.op = "render" =>
        /\ Truncated(gl.scene.u_sphere_count, gl.scene.u_spheres,
                     scene.spheres, 10, UploadSphere)
        /\ Truncated(gl.scene.u_plane_count, gl.scene.u_planes,
                     scene.planes, 5, UploadPlane)
        /\ Truncated(gl.scene.u_box_count, gl.scene.u_boxes,
                     scene.boxes, 5, UploadBox)
        /\ Truncated(gl.scene.u_cylinder_count, gl.scene.u_cylinders,
                     scene.cylinders, 5, UploadCylinder)
        /\ Truncated(gl.scene.u_triangle_count, gl.scene.u_triangles,
                     scene.triangles, 10, UploadTriangle)
        /\ Truncated(gl.scene.u_light_count, gl.scene.u_lights,
                     scene.lights, 4, UploadLight)

\* a render of a scene every collection of which holds more than its cap
C1_Witness ==
    /\ call.op = "render"
    /\ \A name \in CollectionNames : Len(scene[name]) > Cap(name)
    /\ gl.scene.u_sphere_count = 10
    /\ gl.scene.u_light_count = 4

\* C2: the adds never reject or drop an entry: the stored count of each type
\* is the count at the last replacement of the scene plus the adds since,
\* caps notwithstanding, and export_scene_json serializes every stored entry
C2_AddsNeverDropped ==
    /\ \A name \in CollectionNames :
         Len(scene[name]) = hist.base[name] + hist.adds[name]
    /\ call.op = "export_scene_json" =>
         \A name \in CollectionNames :
            Len(call.ret.fields[name].items) = hist.base[name] + hist.adds[name]

\* an export after add_sphere took the spheres from the cap to past it
C2_Witness ==
    /\ call.op = "export_scene_json"
    /\ hist.base["spheres"] = 10
    /\ hist.adds["spheres"] = 1
    /\ Len(call.ret.fields["spheres"].items) = 11

(***************************************************************************)
(* Import/export and sphere editing properties                             *)
(***************************************************************************)
\* C3: export_scene_json followed by load_scene_json of the exported
\* document succeeds and yields a scene equal field-for-field to the exported
\* one, for every scene reachable through the editing operations
C3_ExportLoadRoundTrip ==
    [][(call'.op = "load_scene_json" /\ call'.doc = "exported") =>
           (call'.ok /\ scene' = scene)]_vars

\* C4: a load_scene_json of a document that fails to parse returns an error
\* and leaves the scene exactly as it was before the call
C4_FailedLoadKeepsScene ==
    [][(call'.op = "load_scene_json" /\ ~call'.ok) => scene' = scene]_vars

\* a load of a document with a malformed sphere has failed on the scene the
\* raytracer is constructed with
C4_Witness ==
    /\ call.op = "load_scene_json"
    /\ call.doc = "bad_radius"
    /\ ~call.ok
    /\ scene = DefaultScene

\* C5: for an index >= the sphere count, get_sphere_position returns
\* [0,0,0] and get_sphere_radius returns 1.0, and the read leaves the scene
\* unchanged
C5_OutOfRangeReads ==
    [][/\ (call'.op = "get_sphere_position" /\ call'.index >= Len(scene.spheres))
            => (call'.ret = <<0, 0, 0>> /\ scene' = scene)
       /\ (call'.op = "get_sphere_radius" /\ call'.index >= Len(scene.spheres))
            => (call'.ret = 1000 /\ scene' = scene)]_vars

\* get_sphere_radius has been called with the index equal to the (non-zero)
\* sphere count
C5_Witness ==
    /\ call.op = "get_sphere_radius"
    /\ call.index = Len(scene.spheres)
    /\ call.index > 0
    /\ call.ret = 1000

\* C6: for an index >= the sphere count, set_sphere_position,
\* set_sphere_radius, set_sphere_material and remove_sphere change nothing
\* of the scene
C6_OutOfRangeWrites ==
    [][(/\ call'.op \in {"set_sphere_position", "set_sphere_radius",
                         "set_sphere_material", "remove_sphere"}
        /\ call'.index >= Len(scene.spheres)) => scene' = scene]_vars

\* set_sphere_radius has been called with an index past the spheres stored
C6_Witness ==
    /\ call.op = "set_sphere_radius"
    /\ call.index >= Len(scene.spheres)
    /\ Len(scene.spheres) > 0

\* C7: remove_sphere(i) with i < n leaves n-1 spheres, those before i
\* unchanged and each later one moved down by one index; the other
\* collections and the background are unchanged
C7_RemoveShifts ==
    [][(call'.op = "remove_sphere" /\ call'.index < Len(scene.spheres)) =>
         /\ Len(scene'.spheres) = Len(scene.spheres) - 1
         /\ \A j \in 1..Len(scene'.spheres) :
              scene'.spheres[j] = IF j <= call'.index THEN scene.spheres[j]
                                                      ELSE scene.spheres[j + 1]
         /\ scene'.planes = scene.planes
         /\ scene'.boxes = scene.boxes
         /\ scene'.cylinders = scene.cylinders
         /\ scene'.triangles = scene.triangles
         /\ scene'.lights = scene.lights
         /\ scene'.background_color = scene.background_color]_vars

\* remove_sphere(1) has removed the second of four spheres
C7_Witness ==
    /\ call.op = "remove_sphere"
    /\ call.index = 1
    /\ Len(scene.spheres) = 3
    /\ scene.spheres[2] = DefaultScene.spheres[3]

(***************************************************************************)
(* Shader properties                                                       *)
(***************************************************************************)
HeadOnRay == [origin |-> V(0, 0, 5), direction |-> Vec3(0, 0, -1000)]

\* C11: the ray from (0, 0, 5) along (0, 0, -1) hits the sphere of radius 1
\* at the origin at t = 4, at the point (0, 0, 1), on the front face, with
\* normal (0, 0, 1); it does not hit the sphere of radius 1 at (5, 5, 5)
C11_HitSphereHeadOn ==
    (call.op = "hitSphere" /\ call.ray = HeadOnRay /\ call.sphere.radius = Scale)
      => /\ call.sphere.center = V(0, 0, 0)
              => call.rec.hit /\ call.rec.t = 4 * Scale
                 /\ call.rec.point = V(0, 0, 1) /\ call.rec.front_face
                 /\ call.rec.normal = V(0, 0, 1)
         /\ call.sphere.center = V(5, 5, 5) => ~call.rec.hit

C11_Witness ==
    /\ call.op = "hitSphere" /\ call.ray = HeadOnRay
    /\ call.sphere.center = V(0, 0, 0) /\ call.rec.hit


\* C12: on a front-face hit of a dielectric whose ior is at least 1, the
\* test ni_over_nt * sin_theta > 1.0 is never true: the total internal
\* reflection branch is not taken
C12_FrontFaceNeverTotalReflection ==
    (/\ call.op = "rayColor" /\ call.rec.hit /\ call.rec.material_type = 2
     /\ call.rec.front_face /\ call.rec.ior >= Scale)
      => call.scatter # "total_internal_reflection"

\* a grazing front-face hit of glass with ior 1.5
C12_Witness ==
    /\ call.op = "rayColor" /\ call.rec.hit /\ call.rec.material_type = 2
    /\ call.rec.front_face /\ call.rec.ior = 15 * (Scale \div 10)
    /\ call.ray.direction = Vec3(0, 196, -981)
    /\ call.scatter = "fresnel"


\* C13: for a metal of roughness 1.0 the absorbed outcome can happen: some
\* ray hits the sphere and some vector inside the unit sphere, which
\* randomInUnitSphere can return, gives a scattered direction whose dot
\* product with the normal is at most 0
C13_MetalAbsorbable ==
    (/\ call.op \in {"hitSphere", "rayColor"}
     /\ call.sphere.material_type = 1 /\ call.sphere.roughness = Scale)
      => \E ray \in ShaderRays, tries \in RandomTries :
           LET rec == HitSphere(call.sphere, ray, TMin, TMax)
               random == RandomInUnitSphere(tries)
           IN /\ rec.hit
              /\ Dot(random, random) < Scale
              /\ Dot(MetalDirection(rec, ray, random), rec.normal) <= 0

\* an absorbed bounce on the metal of roughness 1.0
C13_Witness ==
    /\ call.op = "rayColor" /\ call.rec.hit
    /\ call.rec.material_type = 1 /\ call.rec.roughness = Scale
    /\ Dot(call.random, call.random) < Scale
    /\ call.scatter = "absorbed"


\* C25: with a = d.d, b = oc.d, c = oc.oc - r^2, hitSphere returns the near
\* root (-b - sqrt(disc)) / a if b^2 - a c > 0 and the root lies in
\* (t_min, t_max), else the far root (-b + sqrt(disc)) / a under the same
\* conditions, else no hit; a hit point lies on the sphere
C25_HitSphereRoots ==
    call.op = "hitSphere" =>
        LET oc == VSub(call.ray.origin, call.sphere.center)
            a == Dot(call.ray.direction, call.ray.direction)
            b == Dot(oc, call.ray.direction)
            c == Dot(oc, oc) - FMul(call.sphere.radius, call.sphere.radius)
            disc == FMul(b, b) - FMul(a, c)
            near == FDiv(-b - FSqrt(disc), a)
            far == FDiv(-b + FSqrt(disc), a)
            Inside(t) == call.t_min < t /\ t < call.t_max
        IN /\ (disc > 0 /\ Inside(near))
                => call.rec.hit /\ call.rec.t = near
           /\ (disc > 0 /\ ~Inside(near) /\ Inside(far))
                => call.rec.hit /\ call.rec.t = far
           /\ (disc <= 0 \/ (~Inside(near) /\ ~Inside(far))) => ~call.rec.hit
           /\ call.rec.hit
                => Near(Length(VSub(call.rec.point, call.sphere.center)),
                        call.sphere.radius)

\* a ray that starts inside the sphere leaves it at the far root
C25_Witness ==
    /\ call.op = "hitSphere" /\ call.rec.hit
    /\ call.ray.origin = V(0, 0, 0) /\ call.rec.t = Scale
    /\ ~call.rec.front_face

\* C26: hitPlane returns no hit when |normal . dir| < 0.0001; otherwise it
\* hits at t = (point - origin) . normal / denom exactly when t lies in the
\* interval, the hit point lies in the plane, front_face is denom < 0 and
\* the returned normal faces against the ray
C26_HitPlaneThreshold ==
    call.op = "hitPlane" =>
        LET denom == Dot6(call.plane.normal, call.ray.direction)
            num == Dot6(VSub(call.plane.point, call.ray.origin),
                        call.plane.normal)
        IN /\ Abs(denom) < (Scale * Scale) \div 10000 => ~call.rec.hit
           /\ Abs(denom) > (Scale * Scale) \div 10000
                => (call.rec.hit <=> (/\ Quotient(num, denom) >= call.t_min
                                      /\ Quotient(num, denom) <= call.t_max))
           /\ call.rec.hit
                => /\ call.rec.t = Quotient(num, denom)
                   /\ Near(Dot(VSub(call.rec.point, call.plane.point),
                               call.plane.normal), 0)
                   /\ call.rec.front_face = (denom < 0)
                   /\ Dot6(call.rec.normal, call.ray.direction) < 0

\* the almost parallel ray, which would meet the plane at t = 50
C26_Witness ==
    /\ call.op = "hitPlane" /\ ~call.rec.hit
    /\ call.ray.direction = Vec3(999, -1, 0)
    /\ call.plane.normal = Vec3(1, 1000, 0)
    /\ Dot6(call.plane.normal, call.ray.direction) = -1

\* the parameters t at which the live spheres and planes of the uniforms u
\* meet the ray strictly inside (t_min, t_max)
Crossings(u, ray, t_min, t_max) ==
    {HitSphere(u.u_spheres[i], ray, t_min, t_max).t :
        i \in {j \in 1..u.u_sphere_count :
                 HitSphere(u.u_spheres[j], ray, t_min, t_max).hit}}
    \cup {HitPlane(u.u_planes[i], ray, t_min, t_max).t :
        i \in {j \in 1..u.u_plane_count :
                 LET rec == HitPlane(u.u_planes[j], ray, t_min, t_max)
                 IN rec.hit /\ rec.t > t_min /\ rec.t < t_max}}

\* C23: hitWorld reports a hit exactly when some live primitive meets the
\* ray at a t strictly inside (t_min, t_max), the record returned has the
\* smallest such t, and every accepted candidate has its t strictly inside
\* (t_min, closest t so far)
C23_NearestHit ==
    call.op = "hitWorld" =>
        LET ts == Crossings(ProgramScene(SetUniforms(call.world)), call.ray,
                            call.t_min, call.t_max)
        IN /\ call.rec.hit <=> ts # {}
           /\ call.rec.hit => \A t \in ts : call.rec.t <= t
           /\ call.rec.hit => call.rec.t \in ts
           /\ \A k \in 1..Len(call.accepted) :
                /\ call.t_min < call.accepted[k][1]
                /\ call.accepted[k][1] < call.accepted[k][2]

\* the points inside the live boxes, cylinders and triangles of the
\* uniforms su: the centre, the middle of the axis, the centroid
InnerPoints(su) ==
    {su.u_boxes[i].center : i \in 1..su.u_box_count}
    \cup {VAdd(su.u_cylinders[i].base, VMulS(su.u_cylinders[i].axis, Scale \div 2)) :
            i \in 1..su.u_cylinder_count}
    \cup {LET t == su.u_triangles[i]
          IN Vec3((t.v0.x + t.v1.x + t.v2.x) \div 3,
                  (t.v0.y + t.v1.y + t.v2.y) \div 3,
                  (t.v0.z + t.v1.z + t.v2.z) \div 3) :
            i \in 1..su.u_triangle_count}

\* C24: live boxes, cylinders and triangles take part in the search: a ray
\* that runs from outside through a point inside such a primitive, at a
\* distance inside (t_min, t_max), yields a hit
C24_BoxesCylindersTrianglesHit ==
    call.op = "hitWorld" =>
        \A p \in InnerPoints(SetUniforms(call.world)) :
            (/\ call.ray.direction = Normalize(VSub(p, call.ray.origin))
             /\ Length(VSub(p, call.ray.origin)) + 2 * Scale < call.t_max)
              => call.rec.hit

C15_FrameTimesWindow ==
    LET n == Len(hist.deltas)
        k == Min(n, FrameWindow)
    IN /\ Len(frame.frame_times) <= FrameWindow
       /\ frame.frame_times = SubSeq(hist.deltas, n - k + 1, n)
       /\ n >= 1 => Near(frame.fps,
                         RDiv(1000 * Scale * k, SumSeq(frame.frame_times)))

\* more renders than the window holds
C15_Witness ==
    /\ Len(hist.deltas) > FrameWindow + 2
    /\ Len(frame.frame_times) = FrameWindow
    /\ frame.frame_times[1] # frame.frame_times[2]

\* C16: the rays of the shader are computed from the position, forward,
\* right and up of the camera at the render: the ray through the centre of
\* the image starts at the camera position and runs along forward
C16_ShaderRaysFollowCamera ==
    call.op = "render"
      => /\ ProgramCamera(gl).u_camera_pos = camera.position
         /\ \A d \in MainRayDirections(ProgramCamera(gl), 0, 0) :
              VNear(d, camera.forward)

Uploaded(code) == IF code \in {0, 1, 2} THEN code ELSE 0

\* C17: a sphere added or given a material with code c is uploaded by a
\* render with material code c for c in {0, 1, 2} and 0 for every other c
C17_MaterialCodeRoundTrip ==
    /\ call.op = "add_sphere" /\ Len(scene.spheres) <= SphereCap
         => SetUniforms(scene).u_spheres[Len(scene.spheres)].material_type
              = Uploaded(call.material_type)
    /\ call.op = "set_sphere_material" /\ call.index < Len(scene.spheres)
         => SetUniforms(scene).u_spheres[call.index + 1].material_type
              = Uploaded(call.material_type)

C17_Witness ==
    /\ call.op = "set_sphere_material" /\ call.index = 0
    /\ call.material_type = 255
    /\ SetUniforms(scene).u_spheres[1].material_type = 0


(***************************************************************************)
(* Path properties                                                         *)
(***************************************************************************)
\* the last iteration of the running call of rayColor
LastIteration == call.trace[Len(call.trace)]

\* C27: whenever the metal branch produces a direction with
\* dot(direction, normal) <= 0, the colour of the sample is exactly zero and
\* the path has stopped; the step after an absorption enters rayColor anew
\* and runs no further iteration of the absorbed sample
C27_AbsorbedIsBlack ==
    [][/\ (/\ call'.op = "path" /\ call'.depth > 0
           /\ call'.trace[call'.depth].rec.hit
           /\ call'.trace[call'.depth].rec.material_type = 1
           /\ Dot(call'.ray.direction, call'.trace[call'.depth].rec.normal) <= 0)
          => call'.color = V(0, 0, 0) /\ call'.status = "absorbed"
       /\ (call.op = "path" /\ call.status = "absorbed")
          => call'.depth = 0 /\ call'.trace = <<>>]_vars

\* a lit metal hit was absorbed
C27_Witness ==
    /\ call.op = "path" /\ call.depth > 0
    /\ LastIteration.rec.hit /\ LastIteration.rec.material_type = 1
    /\ Dot(call.ray.direction, LastIteration.rec.normal) <= 0
    /\ LastIteration.color # V(0, 0, 0)
    /\ LastIteration.lighting # V(0, 0, 0)
    /\ call.status = "absorbed"

\* C28: rayColor runs at most 8 iterations, one hitWorld each; every
\* iteration before the last one hit and was not absorbed, a miss or an
\* absorption ends the path, and after the end the next step enters rayColor
\* anew
C28_PathTerminates ==
    [][/\ call'.op = "path"
          => /\ call'.depth = Len(call'.trace)
             /\ call'.depth <= MaxDepth
             /\ \A k \in 1..Len(call'.trace) :
                  LET ended == \/ ~call'.trace[k].rec.hit
                               \/ call'.trace[k].scatter = "absorbed"
                  IN /\ k < Len(call'.trace) => ~ended
                     /\ k = Len(call'.trace)
                          => (ended <=> call'.status # "running")
       /\ (call.op = "path"
           /\ (call.status # "running" \/ call.depth = MaxDepth))
          => call'.depth = 0 /\ call'.trace = <<>>]_vars

\* a path that ran all 8 iterations, each of them a hit
C28_Witness ==
    /\ call.op = "path" /\ call.depth = MaxDepth /\ call.status = "running"
    /\ \A k \in 1..MaxDepth : call.trace[k].rec.hit

\* C29: on a miss the colour is multiplied by the blend of white towards the
\* background colour of the scene, weighted by
\* t = 0.5 * (normalize(direction).y + 1.0)
C29_SkyUsesBackground ==
    (call.op = "path" /\ call.status = "sky")
    => LET t == FMul(Scale \div 2,
                     Normalize(LastIteration.from.direction).y + Scale)
       IN call.color =
            VMul(LastIteration.color,
                 VAdd(VMulS(V(1, 1, 1), Scale - t),
                      VMulS(call.world.background_color, t)))

\* the uniforms the running call of rayColor reads
PathUniforms == ProgramScene(SetUniforms(call.world))

\* the lights the loop of rayColor visits
LiveLights == 1..Min(PathUniforms.u_light_count, 4)

\* whether some primitive crosses the shadow ray from rec towards the i-th
\* light within (0.001, distance - 0.001)
Occluded(rec, i) ==
    LET to_light == VSub(PathUniforms.u_lights[i].position, rec.point)
    IN HitWorld(PathUniforms,
                [origin |-> VAdd(rec.point, VMulS(rec.normal, 1)),
                 direction |-> Normalize(to_light)],
                TMin, Length(to_light) - 1).rec.hit

Ambient == Vec3(Scale \div 4, Scale \div 4, Scale \div 4)

\* a is nowhere below b
VGeq(a, b) == a.x >= b.x /\ a.y >= b.y /\ a.z >= b.z

\* C30: at each hit, an occluded live light adds nothing to the lighting:
\* the lighting is the one of the scene without the occluded lights, the
\* ambient term included; it equals ambient when every live light is
\* occluded or there is none, and it is not below ambient when no live light
\* has a negative intensity or colour
C30_OccludedAddsNothing ==
    (call.op = "path" /\ call.depth > 0 /\ LastIteration.rec.hit) =>
      LET rec == LastIteration.rec
          seen == SelectSeq([i \in 1..Len(call.world.lights) |-> i],
                            LAMBDA i : i \in LiveLights /\ ~Occluded(rec, i))
          unshadowed ==
              [PathUniforms EXCEPT
                  !.u_light_count = Len(seen),
                  !.u_lights = [j \in 1..Len(seen) |->
                                   PathUniforms.u_lights[seen[j]]]]
      IN /\ LastIteration.lighting = Lighting(unshadowed, rec)
         /\ (\A i \in LiveLights : Occluded(rec, i))
            => LastIteration.lighting = Ambient
         /\ (\A i \in LiveLights :
               /\ PathUniforms.u_lights[i].intensity >= 0
               /\ VGeq(PathUniforms.u_lights[i].color, V(0, 0, 0)))
            => VGeq(LastIteration.lighting, Ambient)

\* a hit with an occluded light whose direction is above the surface and a
\* light that is not occluded and adds to the lighting
C30_Witness ==
    /\ call.op = "path" /\ call.depth > 0 /\ LastIteration.rec.hit
    /\ \E i \in LiveLights :
         /\ Occluded(LastIteration.rec, i)
         /\ PathUniforms.u_lights[i].intensity > 0
         /\ Dot(LastIteration.rec.normal,
                Normalize(VSub(PathUniforms.u_lights[i].position,
                               LastIteration.rec.point))) > 100
    /\ \E i \in LiveLights : ~Occluded(LastIteration.rec, i)
    /\ LastIteration.lighting # Ambient

\* C30 as stated: the lighting is never below ambient, and it equals
\* ambient exactly when every live light is occluded or there is none
C30_AmbientExactly ==
    (call.op = "path" /\ call.depth > 0 /\ LastIteration.rec.hit) =>
      /\ VGeq(LastIteration.lighting, Ambient)
      /\ LastIteration.lighting = Ambient
         <=> \A i \in LiveLights : Occluded(LastIteration.rec, i)

=============================================================================
